---- MODULE Spec2Model ----
(***************************************************************************)
(* Observability and resilience layer of kilo-k-exams:                     *)
(*   retryWithBackoff / withTimeout / handleError / performHealthCheck     *)
(*   (errorHandler), PerformanceMonitor / UserTracker / HealthMonitor      *)
(*   (monitoring), AutoRecovery (stability), Logger, ErrorBoundary, the    *)
(*   ApplicationError taxonomy.                                            *)
(* Every component has its own specification (SpecRetry, SpecRecovery,     *)
(* SpecTracker, SpecBuffers, SpecSink, SpecHealth, SpecHistory,            *)
(* SpecAlerts, SpecLogger, SpecLogStore, SpecTaxonomy, SpecTimeout,        *)
(* SpecPerf, SpecBoundary, SpecCopies, SpecConnection, SpecRecoverySolo);  *)
(* the variables of the other components stay at their initial value in it. *)
(*                                                                         *)
(* `log` holds the records handed to the logger by the LAST step only, so  *)
(* that "this handler logged exactly these records" is a state predicate.  *)
(* `sent` likewise holds the sessions the LAST step gave to the analytics  *)
(* sink.                                                                   *)
(***************************************************************************)
EXTENDS Integers, Sequences, FiniteSets, TLC

VARIABLES
    log,               \* logger records produced by the last step
    retry,             \* retryWithBackoff: one record per invocation
    otherTimers,       \* unrelated timers that fired (interleaving)
    recoveryAttempts,  \* AutoRecovery.recoveryAttempts: Map<context, number>
    rec,               \* attemptRecovery: one record per call chain
    recFails,          \* ghost: consecutive operation failures per context (saturating)
    recOps,            \* ghost: operation invocations per context since its counter was last reset
    recInvoked,        \* contexts whose operation the last step invoked
    recStarted,        \* ghost: number of attemptRecovery calls made by callers
    recOutcome,        \* what the operation settled with in the last step (<<>>: it did not)
    currentSession,    \* UserTracker.currentSession (<<>> is null)
    interactions,      \* UserTracker.interactions
    errors,            \* UserTracker.errors
    now,               \* wall clock read by new Date()
    sent,              \* sessions passed to sendAnalyticsData by the last step
    histI,             \* ghost: interactions tracked since the buffers were last cleared
    histE,             \* ghost: errors tracked since the buffers were last cleared
    sinceStart,        \* ghost: interactions tracked since the last startSession
    pagesSinceStart,   \* ghost: pages tracked since the last startSession
    cleanStart,        \* ghost: the buffers were empty at the last startSession
    nStarts,           \* ghost: number of startSession calls (makes session ids)
    nTrackedI,         \* ghost: number of trackInteraction calls (identity of an interaction)
    nTrackedE,         \* ghost: number of trackError calls (identity of an error event)
    nPageViews,        \* ghost: number of trackPageView calls
    lastCall,          \* ghost: the tracker method the last step called ("" for none)
    envState,          \* environment read by performHealthCheck
    health,            \* result of the last performHealthCheck (<<>> before)
    probedEnv,         \* ghost: the environment that performHealthCheck ran in
    healthHistory,     \* HealthMonitor.healthHistory
    alertThresholds,   \* HealthMonitor.alertThresholds (rates in percent)
    memory,            \* performance.memory (<<>>: the runtime has no memory telemetry)
    checkQueue,        \* checkHealth calls suspended at their await, oldest first
    nChecks,           \* ghost: number of checkHealth calls made (identity of a call)
    alerts,            \* alerts found by the last checkAlerts
    isDevelopment,     \* Logger.isDevelopment (<<>> before the logger is constructed)
    appLogs,           \* localStorage item 'app_logs'
    consoleOut,        \* what the last step wrote to the console
    logOutcome,        \* how the last logger call ended ("" for no call)
    nLogs,             \* ghost: number of logger calls made (identity of an entry)
    thrown,            \* the error value a caller holds (<<>>: none)
    classified,        \* <<input, result>> of the last handleError call
    nMade,             \* ghost: number of error objects created (identity of an object)
    wt,                \* withTimeout: one record per call
    observers,         \* PerformanceMonitor.observers
    subscribed,        \* the observers the browser delivers entries to
    samplers,          \* the memory sampling intervals that are running
    nInits,            \* ghost: number of initialize() calls (identity of an observer)
    perfSupport,       \* ghost: the entry types the browser supported at the last initialize()
    lastPerfCall,      \* ghost: the PerformanceMonitor method the last step called
    analyticsEnv,      \* what sendAnalyticsData reads (navigator, window.screen, Intl)
    endRaised,         \* the last endSession() call raised to its caller
    boundary,          \* ErrorBoundary: one record per mounted instance
    heldHistory,       \* the array a reader got from getHealthHistory() (<<>>: none)
    heldThresholds,    \* the object a reader got from getAlertThresholds() (<<>>: none)
    heldSession,       \* the sealed session the analytics sink kept (<<>>: none)
    nGets,             \* ghost: number of values handed to readers
    nMutations,        \* ghost: number of mutations readers made
    hookHealth,        \* useHealthCheck: the `health` state (<<>> is null)
    hookLoading,       \* useHealthCheck: the `loading` state
    hookPending,       \* performCheck calls suspended at their await, oldest first
    nHookChecks        \* ghost: number of performCheck calls made

retryVars    == <<retry, otherTimers>>
recoveryVars == <<recoveryAttempts, rec, recFails, recOps, recInvoked, recStarted,
                  recOutcome>>
trackerVars  == <<currentSession, interactions, errors, now, sent, histI, histE,
                  sinceStart, pagesSinceStart, cleanStart, nStarts,
                  nTrackedI, nTrackedE, nPageViews, lastCall>>
healthVars   == <<envState, health, probedEnv>>
monitorVars  == <<healthHistory, alertThresholds, memory, checkQueue, nChecks, alerts>>
loggerVars   == <<isDevelopment, appLogs, consoleOut, logOutcome, nLogs>>
taxonomyVars == <<thrown, classified, nMade>>
timeoutVars  == <<wt>>
perfVars     == <<observers, subscribed, samplers, nInits, perfSupport, lastPerfCall>>
coreVars == <<retryVars, recoveryVars, trackerVars, healthVars,
              monitorVars, loggerVars, taxonomyVars>>
sinkVars     == <<analyticsEnv, endRaised>>
boundaryVars == <<boundary>>
readerVars   == <<heldHistory, heldThresholds, heldSession, nGets, nMutations>>
hookVars     == <<hookHealth, hookLoading, hookPending, nHookChecks>>
extVars == <<timeoutVars, perfVars, sinkVars, boundaryVars, readerVars, hookVars>>
exceptTimeout == <<perfVars, sinkVars, boundaryVars, readerVars, hookVars>>
exceptPerf == <<timeoutVars, sinkVars, boundaryVars, readerVars, hookVars>>
exceptSink == <<timeoutVars, perfVars, boundaryVars, readerVars, hookVars>>
exceptBoundary == <<timeoutVars, perfVars, sinkVars, readerVars, hookVars>>
exceptReader == <<timeoutVars, perfVars, sinkVars, boundaryVars, hookVars>>
exceptHook == <<timeoutVars, perfVars, sinkVars, boundaryVars, readerVars>>
vars == <<log, coreVars, extVars>>

Min(a, b) == IF a < b THEN a ELSE b

RECURSIVE Pow2(_)
Pow2(n) == IF n <= 0 THEN 1 ELSE 2 * Pow2(n - 1)

\* slice(-n) of an array
LastN(s, n) == IF Len(s) <= n THEN s ELSE SubSeq(s, Len(s) - n + 1, Len(s))

LogRec(level, context) == [level |-> level, context |-> context]

(***************************************************************************)
(* Errors.  cls is the JavaScript class of the thrown value, origin the    *)
(* ordinal of the operation invocation that threw it (identity of the      *)
(* error object), cause whether the object carries a cause.  An option or  *)
(* field that is undefined is <<>>, one with a value v is <<v>>.           *)
(***************************************************************************)
RawErrorClasses == {"ApplicationError", "Error", "NonError"}

\* the subclasses of ApplicationError
Variants == {"ValidationError", "NetworkError", "DatabaseError",
             "AuthenticationError", "PermissionError", "NotFoundError"}

\* the code each subclass hands to super()
VariantCode(variant) ==
    CASE variant = "ValidationError" -> "VALIDATION_ERROR"
      [] variant = "NetworkError" -> "NETWORK_ERROR"
      [] variant = "DatabaseError" -> "DATABASE_ERROR"
      [] variant = "AuthenticationError" -> "AUTH_ERROR"
      [] variant = "PermissionError" -> "PERMISSION_ERROR"
      [] variant = "NotFoundError" -> "NOT_FOUND"

\* mutant: every subclass reports a server error
VariantStatusCode_AlwaysServerError(variant) == 500

\* the statusCode each subclass hands to super()
VariantStatusCode(variant) ==
    CASE variant = "ValidationError" -> 400
      [] variant = "NetworkError" -> 0
      [] variant = "DatabaseError" -> 500
      [] variant = "AuthenticationError" -> 401
      [] variant = "PermissionError" -> 403
      [] variant = "NotFoundError" -> 404

\* a thrown value that is not an Error: a string, a number, null, undefined, an object
Value(type, s, n) == [type |-> type, s |-> s, n |-> n]

\* String(value)
StringOf(v) ==
    CASE v.type = "string" -> v.s
      [] v.type = "number" -> ToString(v.n)
      [] v.type = "null" -> "null"
      [] v.type = "undefined" -> "undefined"
      [] OTHER -> "[object Object]"

\* new Error(message)
NativeError(message, origin) ==
    [cls |-> "Error", message |-> message, origin |-> origin, cause |-> FALSE]

\* throw value
ThrownValue(value, origin) ==
    [cls |-> "NonError", value |-> value, origin |-> origin, cause |-> FALSE]

UndefinedError == [cls |-> "undefined", origin |-> 0, cause |-> FALSE]

\* error instanceof ApplicationError (the subclasses included)
IsAppError(e) == e.cls = "ApplicationError"

NoOptions ==
    [code |-> <<>>, statusCode |-> <<>>, context |-> <<>>, isOperational |-> <<>>,
     cause |-> <<>>]

\* new ApplicationError(message, options): super(message) only, options.cause is
\* not stored; the constructor reports itself through logger.trackError.
NewApplicationError(message, options, origin) ==
    [cls |-> "ApplicationError", name |-> "ApplicationError", message |-> message,
     code |-> options.code, statusCode |-> options.statusCode,
     context |-> options.context,
     isOperational |-> IF options.isOperational = <<>> THEN TRUE
                       ELSE options.isOperational[1],
     origin |-> origin, cause |-> FALSE]

\* new <Variant>(message, context, cause): super(message, {...}), then this.name;
\* only NetworkError and DatabaseError take a cause
NewVariantError(variant, message, context, cause, origin) ==
    [NewApplicationError(message,
                         [code |-> <<VariantCode(variant)>>,
                          statusCode |-> <<VariantStatusCode(variant)>>,
                          context |-> context, isOperational |-> <<TRUE>>,
                          cause |-> cause],
                         origin)
     EXCEPT !.name = variant]

\* what an operation rejects with: a NetworkError, an Error, a string
RawError(cls, origin) ==
    CASE cls = "ApplicationError" ->
            NewVariantError("NetworkError", "failed", <<>>, <<>>, origin)
      [] cls = "Error" -> NativeError("failed", origin)
      [] OTHER -> ThrownValue(Value("string", "failed", 0), origin)

ConstructorLog == <<LogRec("error", "ERROR")>>

\* handleError(error, context): the classified error
handleError(e, context) ==
    IF IsAppError(e) THEN e
    ELSE IF e.cls = "Error"
    THEN NewApplicationError(e.message,
                             [NoOptions EXCEPT !.context = context,
                                               !.cause = <<e.origin>>],
                             e.origin)
    ELSE NewApplicationError(StringOf(e.value),
                             [NoOptions EXCEPT !.context = context,
                                               !.isOperational = <<TRUE>>],
                             e.origin)

\* mutant: handleError reports the error it passes through once more
handleErrorLog_Always(e) == ConstructorLog

\* the records handleError logs: one per ApplicationError it constructs
handleErrorLog(e) == IF IsAppError(e) THEN <<>> ELSE ConstructorLog

(***************************************************************************)
(* retryWithBackoff                                                        *)
(***************************************************************************)
MaxMaxAttempts == 3
MaxOtherTimers == 1

DefaultMaxDelay == 10000
JitterRange == 1000

\* two invocations run interleaved
RetryCalls == {"r1", "r2"}
MaxAttemptsOpts == 0..MaxMaxAttempts
BaseDelayOpts == {1000, 8000}
Jitters == {0, JitterRange - 1}

\* mutant: the delay is not capped
BackoffDelay_NoCap(base, attempt, jitter, maxDelay) ==
    base * Pow2(attempt - 1) + jitter

\* Math.min(baseDelay * Math.pow(2, attempt - 1) + Math.random() * 1000, maxDelay)
BackoffDelay(base, attempt, jitter, maxDelay) ==
    Min(base * Pow2(attempt - 1) + jitter, maxDelay)

RetryIdle ==
    [pc |-> "idle", maxAttempts |-> 0, baseDelay |-> 0, attempt |-> 0,
     lastError |-> <<>>, delay |-> 0, result |-> <<>>,
     opCalls |-> 0, delays |-> 0, pending |-> 0, timers |-> 0]

\* the loop head `attempt <= maxAttempts` followed by the body up to the await
\* of operation(), or by `throw lastError!` after the loop
RetryLoopHead(c, attempt) ==
    IF attempt <= c.maxAttempts
    THEN [c EXCEPT !.pc = "running", !.attempt = attempt,
                   !.opCalls = @ + 1, !.pending = @ + 1]
    ELSE [c EXCEPT !.pc = "thrown", !.attempt = attempt,
                   !.result = <<IF c.lastError = <<>> THEN UndefinedError
                                ELSE c.lastError[1]>>]

RetryLoopHeadLog(c, attempt) ==
    IF attempt <= c.maxAttempts THEN <<LogRec("debug", "RETRY_OPERATION")>> ELSE <<>>

\* mutant: the final-attempt test never holds, so the loop sleeps once more
RetryIsLastAttempt_Never(c) == c.attempt > c.maxAttempts

\* the last attempt is the one that throws: `attempt === maxAttempts`
RetryIsLastAttempt(c) == c.attempt = c.maxAttempts

\* retryWithBackoff(operation, {maxAttempts, baseDelay})
RetryCall(r, m, b) ==
    /\ retry[r].pc = "idle"
    /\ LET c == [retry[r] EXCEPT !.maxAttempts = m, !.baseDelay = b]
       IN /\ retry' = [retry EXCEPT ![r] = RetryLoopHead(c, 1)]
          /\ log' = RetryLoopHeadLog(c, 1)
    /\ UNCHANGED <<otherTimers, recoveryVars, trackerVars, healthVars,
                   monitorVars, loggerVars, taxonomyVars, extVars>>

\* mutant: the success is not returned from inside the loop, the loop goes on
RetryOpSucceeds_NoReturn(r) ==
    /\ retry[r].pc = "running"
    /\ LET c == [retry[r] EXCEPT !.pending = @ - 1,
                                 !.result = <<[cls |-> "value", origin |-> retry[r].opCalls,
                                               cause |-> FALSE]>>]
       IN retry' = [retry EXCEPT ![r] =
                      IF c.attempt < c.maxAttempts
                      THEN RetryLoopHead(c, c.attempt + 1)
                      ELSE [c EXCEPT !.pc = "returned"]]
    /\ log' = <<>>
    /\ UNCHANGED <<otherTimers, recoveryVars, trackerVars, healthVars,
                   monitorVars, loggerVars, taxonomyVars, extVars>>

\* the awaited operation() resolves
RetryOpSucceeds(r) ==
    /\ retry[r].pc = "running"
    /\ retry' = [retry EXCEPT ![r] =
                   [@ EXCEPT !.pc = "returned", !.pending = @ - 1,
                             !.result = <<[cls |-> "value", origin |-> retry[r].opCalls,
                                           cause |-> FALSE]>>]]
    /\ log' = <<>>
    /\ UNCHANGED <<otherTimers, recoveryVars, trackerVars, healthVars,
                   monitorVars, loggerVars, taxonomyVars, extVars>>

\* mutant: the backoff promise is not awaited, the next attempt starts at once
RetryOpFails_NoAwait(r, cls, jitter) ==
    /\ retry[r].pc = "running"
    /\ LET c == retry[r]
           err == handleError(RawError(cls, c.opCalls), <<"RETRY_OPERATION">>)
       IN IF RetryIsLastAttempt(c)
          THEN retry' = [retry EXCEPT ![r] =
                           [c EXCEPT !.pc = "thrown", !.pending = @ - 1,
                                     !.lastError = <<err>>, !.result = <<err>>]]
          ELSE retry' = [retry EXCEPT ![r] =
                           RetryLoopHead([c EXCEPT !.pending = @ - 1, !.lastError = <<err>>,
                                                   !.delays = @ + 1, !.timers = @ + 1],
                                         c.attempt + 1)]
    /\ log' = <<>>
    /\ UNCHANGED <<otherTimers, recoveryVars, trackerVars, healthVars,
                   monitorVars, loggerVars, taxonomyVars, extVars>>

\* the awaited operation() rejects with a value of class cls: the catch block
RetryOpFails(r, cls, jitter) ==
    /\ retry[r].pc = "running"
    /\ LET c == retry[r]
           raw == RawError(cls, c.opCalls)
           err == handleError(raw, <<"RETRY_OPERATION">>)
       IN IF RetryIsLastAttempt(c)
          THEN /\ retry' = [retry EXCEPT ![r] =
                              [c EXCEPT !.pc = "thrown", !.pending = @ - 1,
                                        !.lastError = <<err>>, !.result = <<err>>]]
               /\ log' = handleErrorLog(raw) \o <<LogRec("error", "RETRY_OPERATION")>>
          ELSE /\ retry' = [retry EXCEPT ![r] =
                              [c EXCEPT !.pc = "sleeping", !.pending = @ - 1,
                                        !.lastError = <<err>>,
                                        !.delay = BackoffDelay(c.baseDelay, c.attempt,
                                                               jitter, DefaultMaxDelay),
                                        !.delays = @ + 1, !.timers = @ + 1]]
               /\ log' = handleErrorLog(raw) \o <<LogRec("warn", "RETRY_OPERATION")>>
    /\ UNCHANGED <<otherTimers, recoveryVars, trackerVars, healthVars,
                   monitorVars, loggerVars, taxonomyVars, extVars>>

\* the backoff timer fires: attempt++ and the loop head again
RetryTimerFires(r) ==
    /\ retry[r].pc = "sleeping"
    /\ LET c == [retry[r] EXCEPT !.timers = @ - 1]
       IN /\ retry' = [retry EXCEPT ![r] = RetryLoopHead(c, c.attempt + 1)]
          /\ log' = RetryLoopHeadLog(c, c.attempt + 1)
    /\ UNCHANGED <<otherTimers, recoveryVars, trackerVars, healthVars,
                   monitorVars, loggerVars, taxonomyVars, extVars>>

\* a timer of another component fires between the steps of the retries
OtherTimerFires ==
    /\ otherTimers < MaxOtherTimers
    /\ otherTimers' = otherTimers + 1
    /\ log' = <<>>
    /\ UNCHANGED <<retry, recoveryVars, trackerVars, healthVars,
                   monitorVars, loggerVars, taxonomyVars, extVars>>

RetryInit == /\ retry = [r \in RetryCalls |-> RetryIdle]
             /\ otherTimers = 0

RetryNext ==
    \/ \E r \in RetryCalls, m \in MaxAttemptsOpts, b \in BaseDelayOpts : RetryCall(r, m, b)
    \/ \E r \in RetryCalls : RetryOpSucceeds(r)
    \/ \E r \in RetryCalls, cls \in RawErrorClasses, j \in Jitters : RetryOpFails(r, cls, j)
    \/ \E r \in RetryCalls : RetryTimerFires(r)
    \/ OtherTimerFires

(***************************************************************************)
(* AutoRecovery.attemptRecovery                                            *)
(***************************************************************************)
maxAttempts == 3
MaxRecoveryCalls == 3
MaxConsecutiveFails == 4

Contexts == {"X", "Y"}
\* two call chains run interleaved
RecCalls == {"a", "b"}
\* what the operation resolves with, and what it rejects with
OpValues == {"v1", "v2"}
OpErrors == {"e1", "e2"}

\* first and invoked are ghosts: the counter the caller's call read, and the
\* operation invocations the chain has made
RecIdle == [pc |-> "idle", context |-> "X", attempts |-> 0, depth |-> 0, result |-> <<>>,
            first |-> 0, invoked |-> 0]

MaxRecoveryError(x) == [kind |-> "error", cls |-> "Error", what |-> "max:" \o x]
OperationError(e) == [kind |-> "error", cls |-> "Error", what |-> e]
OperationValue(v) == [kind |-> "value", cls |-> "value", what |-> v]

\* this.recoveryAttempts.get(context) || 0
RecGet(x) == IF x \in DOMAIN recoveryAttempts THEN recoveryAttempts[x] ELSE 0

\* this.recoveryAttempts.set(context, n)
RecSet(x, n) == [y \in DOMAIN recoveryAttempts \cup {x} |->
                    IF y = x THEN n ELSE recoveryAttempts[y]]

\* mutant: the counter is not deleted on success
RecDelete_Keep(x) == recoveryAttempts

\* this.recoveryAttempts.delete(context)
RecDelete(x) == [y \in DOMAIN recoveryAttempts \ {x} |-> recoveryAttempts[y]]

\* mutant: the ceiling test is off by one
RecAtCeiling_OffByOne(attempts) == attempts > maxAttempts

\* `attempts >= this.maxAttempts`: the ceiling is reached
RecAtCeiling(attempts) == attempts >= maxAttempts

\* mutant: wait and try again after every failure
RecRetryAgain_Always(newAttempts) == TRUE

\* `newAttempts < this.maxAttempts`: wait and try again
RecRetryAgain(newAttempts) == newAttempts < maxAttempts

\* attemptRecovery up to its first await: reads the counter, throws at the
\* ceiling, invokes the operation otherwise
RecEnter(p, x, c) ==
    LET attempts == RecGet(x)
    IN IF RecAtCeiling(attempts)
       THEN /\ rec' = [rec EXCEPT ![p] =
                         [c EXCEPT !.pc = "thrown", !.context = x, !.attempts = attempts,
                                   !.result = <<MaxRecoveryError(x)>>]]
            /\ recInvoked' = {}
            /\ recOps' = recOps
       ELSE /\ rec' = [rec EXCEPT ![p] =
                         [c EXCEPT !.pc = "running", !.context = x, !.attempts = attempts,
                                   !.invoked = @ + 1]]
            /\ recInvoked' = {x}
            /\ recOps' = [recOps EXCEPT ![x] = @ + 1]

\* a caller calls attemptRecovery(operation, context)
RecCall(p, x) ==
    /\ rec[p].pc \in {"idle", "returned", "thrown"}
    /\ RecEnter(p, x, [RecIdle EXCEPT !.depth = 1, !.first = RecGet(x)])
    /\ recStarted' = recStarted + 1
    /\ recOutcome' = <<>>
    /\ log' = <<>>
    /\ UNCHANGED <<recoveryAttempts, recFails, retryVars, trackerVars, healthVars,
                   monitorVars, loggerVars, taxonomyVars, extVars>>

\* the awaited operation() resolves with v: reset the counter, return the value
RecOpSucceeds(p, v) ==
    /\ rec[p].pc = "running"
    /\ LET x == rec[p].context
       IN /\ recoveryAttempts' = RecDelete(x)
          /\ rec' = [rec EXCEPT ![p] =
                       [@ EXCEPT !.pc = "returned", !.result = <<OperationValue(v)>>]]
          /\ recFails' = [recFails EXCEPT ![x] = 0]
          /\ recOps' = [recOps EXCEPT ![x] = 0]
    /\ recInvoked' = {}
    /\ recOutcome' = <<OperationValue(v)>>
    /\ log' = <<>>
    /\ UNCHANGED <<recStarted, retryVars, trackerVars, healthVars,
                   monitorVars, loggerVars, taxonomyVars, extVars>>

\* the awaited operation() rejects with e: count the attempt, then cool down
\* or rethrow (the warning is logged once the logger module is imported)
RecOpFails(p, e) ==
    /\ rec[p].pc = "running"
    /\ LET x == rec[p].context
           newAttempts == rec[p].attempts + 1
       IN /\ recoveryAttempts' = RecSet(x, newAttempts)
          /\ recFails' = [recFails EXCEPT ![x] = Min(@ + 1, MaxConsecutiveFails)]
          /\ rec' = [rec EXCEPT ![p] =
                       IF RecRetryAgain(newAttempts)
                       THEN [@ EXCEPT !.pc = "cooldown"]
                       ELSE [@ EXCEPT !.pc = "thrown", !.result = <<OperationError(e)>>]]
    /\ recInvoked' = {}
    /\ recOutcome' = <<OperationError(e)>>
    /\ log' = <<LogRec("warn", "AUTO_RECOVERY")>>
    /\ UNCHANGED <<recStarted, recOps, retryVars, trackerVars, healthVars,
                   monitorVars, loggerVars, taxonomyVars, extVars>>

\* the cooldown timer fires: `return this.attemptRecovery(operation, context)`
RecCooldownFires(p) ==
    /\ rec[p].pc = "cooldown"
    /\ RecEnter(p, rec[p].context, [rec[p] EXCEPT !.depth = @ + 1])
    /\ recOutcome' = <<>>
    /\ log' = <<>>
    /\ UNCHANGED <<recoveryAttempts, recFails, recStarted, retryVars, trackerVars, healthVars,
                   monitorVars, loggerVars, taxonomyVars, extVars>>

RecoveryInit == /\ recoveryAttempts = <<>>
                /\ rec = [p \in RecCalls |-> RecIdle]
                /\ recFails = [x \in Contexts |-> 0]
                /\ recOps = [x \in Contexts |-> 0]
                /\ recInvoked = {}
                /\ recStarted = 0
                /\ recOutcome = <<>>

RecoveryNext ==
    \/ \E p \in RecCalls, x \in Contexts : recStarted < MaxRecoveryCalls /\ RecCall(p, x)
    \/ \E p \in RecCalls, v \in OpValues : RecOpSucceeds(p, v)
    \/ \E p \in RecCalls, e \in OpErrors : RecOpFails(p, e)
    \/ \E p \in RecCalls : RecCooldownFires(p)

\* no other call chain for context x is between its entry and its return or throw
RecAlone(p, x) ==
    \A q \in RecCalls \ {p} :
        rec[q].context = x => rec[q].pc \in {"idle", "returned", "thrown"}

\* callers never have two calls for one context in flight
RecoverySoloNext ==
    \/ \E p \in RecCalls, x \in Contexts :
          recStarted < MaxRecoveryCalls /\ RecAlone(p, x) /\ RecCall(p, x)
    \/ \E p \in RecCalls, v \in OpValues : RecOpSucceeds(p, v)
    \/ \E p \in RecCalls, e \in OpErrors : RecOpFails(p, e)
    \/ \E p \in RecCalls : RecCooldownFires(p)

(***************************************************************************)
(* UserTracker                                                             *)
(***************************************************************************)
InteractionCap == 100
ErrorCap == 50

MaxTime == 1
MaxTrackerCalls == 5
MaxBufferedInteractions == 102
MaxBufferedErrors == 52

Pages == {"/exam/1", "/exam/2"}
\* window.location.pathname while the tracker runs
Locations == {"/"}
InteractionTypes == {"click", "scroll"}
UserIds == {"none", "u1"}
ErrorContexts == {"UI"}

NoSession == <<>>
HasSession == currentSession # NoSession
Session == currentSession[1]

\* the id of no session: `this.currentSession?.sessionId || 'unknown'`
UnknownSession == 0

\* mutant: the overflowing buffer keeps its first cap entries, slice(0, cap)
PushCapped_KeepFirst(buffer, item, cap) ==
    LET pushed == Append(buffer, item)
    IN IF Len(pushed) > cap THEN SubSeq(pushed, 1, cap) ELSE pushed

\* the buffer after push and `if (length > cap) buffer = buffer.slice(-cap)`
PushCapped(buffer, item, cap) ==
    LET pushed == Append(buffer, item)
    IN IF Len(pushed) > cap THEN LastN(pushed, cap) ELSE pushed

\* startSession(userId), read at location path
startSession(userId, path) ==
    /\ currentSession' = <<[sessionId |-> nStarts + 1, userId |-> userId,
                            startTime |-> now, endTime |-> <<>>,
                            pageViews |-> <<path>>,
                            interactions |-> <<>>, errors |-> <<>>]>>
    /\ log' = <<LogRec("info", "SESSION")>>
    /\ sent' = <<>>
    /\ nStarts' = nStarts + 1
    /\ lastCall' = "startSession"
    /\ sinceStart' = <<>>
    /\ pagesSinceStart' = <<path>>
    /\ cleanStart' = (interactions = <<>> /\ errors = <<>>)
    /\ UNCHANGED <<interactions, errors, now, histI, histE, nTrackedI, nTrackedE, nPageViews>>
    /\ UNCHANGED <<retryVars, recoveryVars, healthVars,
                   monitorVars, loggerVars, taxonomyVars, extVars>>

\* mutant: the interaction buffer is not copied into the sealed session
SealedSession_NoCopy == [Session EXCEPT !.endTime = <<now>>, !.errors = errors]

\* the session endSession seals: endTime stamped, the buffers copied in
SealedSession == [Session EXCEPT !.endTime = <<now>>,
                                 !.interactions = interactions,
                                 !.errors = errors]

\* mutant: sendAnalyticsData has no try/catch
sendAnalyticsData_NoCatch(env) ==
    IF env = "throws"
    THEN [log |-> <<>>, raised |-> TRUE]
    ELSE [log |-> <<LogRec("info", "ANALYTICS")>>, raised |-> FALSE]

\* sendAnalyticsData(session): the try block builds the payload from navigator,
\* window.screen and Intl and logs it (the fetch is commented out); the catch logs
\* the failure
sendAnalyticsData(env) ==
    IF env = "throws"
    THEN [log |-> <<LogRec("error", "ANALYTICS")>>, raised |-> FALSE]
    ELSE [log |-> <<LogRec("info", "ANALYTICS")>>, raised |-> FALSE]

\* mutant: endSession forgets to reset the error buffer
endSession_KeepErrors ==
    /\ IF HasSession
       THEN /\ sent' = <<SealedSession>>
            /\ log' = <<LogRec("info", "SESSION")>> \o sendAnalyticsData(analyticsEnv).log
            /\ currentSession' = NoSession
            /\ interactions' = <<>>
            /\ histI' = <<>>
            /\ UNCHANGED <<errors, histE>>
       ELSE /\ sent' = <<>>
            /\ log' = <<>>
            /\ UNCHANGED <<currentSession, interactions, errors, histI, histE>>
    /\ lastCall' = "endSession"
    /\ endRaised' = FALSE
    /\ UNCHANGED <<now, sinceStart, pagesSinceStart, cleanStart, nStarts,
                   nTrackedI, nTrackedE, nPageViews>>
    /\ UNCHANGED <<retryVars, recoveryVars, healthVars,
                   monitorVars, loggerVars, taxonomyVars, analyticsEnv, exceptSink>>

\* mutant: endSession forgets to reset currentSession
endSession_KeepSession ==
    /\ IF HasSession
       THEN /\ sent' = <<SealedSession>>
            /\ log' = <<LogRec("info", "SESSION")>> \o sendAnalyticsData(analyticsEnv).log
            /\ currentSession' = <<SealedSession>>
            /\ interactions' = <<>>
            /\ errors' = <<>>
            /\ histI' = <<>>
            /\ histE' = <<>>
       ELSE /\ sent' = <<>>
            /\ log' = <<>>
            /\ UNCHANGED <<currentSession, interactions, errors, histI, histE>>
    /\ lastCall' = "endSession"
    /\ endRaised' = FALSE
    /\ UNCHANGED <<now, sinceStart, pagesSinceStart, cleanStart, nStarts,
                   nTrackedI, nTrackedE, nPageViews>>
    /\ UNCHANGED <<retryVars, recoveryVars, healthVars,
                   monitorVars, loggerVars, taxonomyVars, analyticsEnv, exceptSink>>

\* endSession(): an error that sendAnalyticsData lets out leaves endSession before
\* the three resets, the session object already stamped and filled
endSession ==
    /\ IF HasSession
       THEN /\ sent' = <<SealedSession>>
            /\ log' = <<LogRec("info", "SESSION")>> \o sendAnalyticsData(analyticsEnv).log
            /\ endRaised' = sendAnalyticsData(analyticsEnv).raised
            /\ IF sendAnalyticsData(analyticsEnv).raised
               THEN /\ currentSession' = <<SealedSession>>
                    /\ UNCHANGED <<interactions, errors, histI, histE>>
               ELSE /\ currentSession' = NoSession
                    /\ interactions' = <<>>
                    /\ errors' = <<>>
                    /\ histI' = <<>>
                    /\ histE' = <<>>
       ELSE /\ sent' = <<>>
            /\ log' = <<>>
            /\ endRaised' = FALSE
            /\ UNCHANGED <<currentSession, interactions, errors, histI, histE>>
    /\ lastCall' = "endSession"
    /\ UNCHANGED <<now, sinceStart, pagesSinceStart, cleanStart, nStarts,
                   nTrackedI, nTrackedE, nPageViews>>
    /\ UNCHANGED <<retryVars, recoveryVars, healthVars,
                   monitorVars, loggerVars, taxonomyVars, analyticsEnv, exceptSink>>

\* the page environment changes under the tracker
AnalyticsEnvChange(env) ==
    /\ env # analyticsEnv
    /\ analyticsEnv' = env
    /\ log' = <<>>
    /\ lastCall' = ""
    /\ sent' = <<>>
    /\ UNCHANGED <<currentSession, interactions, errors, now, histI, histE, sinceStart,
                   pagesSinceStart, cleanStart, nStarts, nTrackedI, nTrackedE,
                   nPageViews, endRaised>>
    /\ UNCHANGED <<retryVars, recoveryVars, healthVars,
                   monitorVars, loggerVars, taxonomyVars, exceptSink>>

\* trackInteraction(type, element, data), read at location path
trackInteraction(type, path) ==
    /\ LET interaction == [id |-> nTrackedI + 1, timestamp |-> now,
                           type |-> type, page |-> path]
       IN /\ interactions' = PushCapped(interactions, interaction, InteractionCap)
          /\ histI' = Append(histI, interaction)
          /\ sinceStart' = Append(sinceStart, interaction)
    /\ nTrackedI' = nTrackedI + 1
    /\ lastCall' = "trackInteraction"
    /\ log' = <<LogRec("debug", "INTERACTION")>>
    /\ sent' = <<>>
    /\ UNCHANGED <<currentSession, errors, now, histE, pagesSinceStart, cleanStart,
                   nStarts, nTrackedE, nPageViews>>
    /\ UNCHANGED <<retryVars, recoveryVars, healthVars,
                   monitorVars, loggerVars, taxonomyVars, extVars>>

\* trackError(error, context)
trackError(context) ==
    /\ LET errorEvent == [id |-> nTrackedE + 1, timestamp |-> now, context |-> context,
                          userId |-> IF HasSession THEN Session.userId ELSE "none",
                          sessionId |-> IF HasSession THEN Session.sessionId
                                        ELSE UnknownSession]
       IN /\ errors' = PushCapped(errors, errorEvent, ErrorCap)
          /\ histE' = Append(histE, errorEvent)
    /\ nTrackedE' = nTrackedE + 1
    /\ lastCall' = "trackError"
    /\ log' = <<LogRec("error", "ERROR_TRACKING")>>
    /\ sent' = <<>>
    /\ UNCHANGED <<currentSession, interactions, now, histI, sinceStart, pagesSinceStart,
                   cleanStart, nStarts, nTrackedI, nPageViews>>
    /\ UNCHANGED <<retryVars, recoveryVars, healthVars,
                   monitorVars, loggerVars, taxonomyVars, extVars>>

\* mutant: the info record is logged outside the `if (this.currentSession)` guard
trackPageView_LogsAlways(page) ==
    /\ IF HasSession
       THEN currentSession' = <<[Session EXCEPT !.pageViews = Append(@, page)]>>
       ELSE UNCHANGED currentSession
    /\ log' = <<LogRec("info", "PAGE_VIEW")>>
    /\ pagesSinceStart' = Append(pagesSinceStart, page)
    /\ nPageViews' = nPageViews + 1
    /\ lastCall' = "trackPageView"
    /\ sent' = <<>>
    /\ UNCHANGED <<interactions, errors, now, histI, histE, sinceStart, cleanStart,
                   nStarts, nTrackedI, nTrackedE>>
    /\ UNCHANGED <<retryVars, recoveryVars, healthVars,
                   monitorVars, loggerVars, taxonomyVars, extVars>>

\* trackPageView(page)
trackPageView(page) ==
    /\ IF HasSession
       THEN /\ currentSession' = <<[Session EXCEPT !.pageViews = Append(@, page)]>>
            /\ log' = <<LogRec("info", "PAGE_VIEW")>>
       ELSE /\ UNCHANGED currentSession
            /\ log' = <<>>
    /\ pagesSinceStart' = Append(pagesSinceStart, page)
    /\ nPageViews' = nPageViews + 1
    /\ lastCall' = "trackPageView"
    /\ sent' = <<>>
    /\ UNCHANGED <<interactions, errors, now, histI, histE, sinceStart, cleanStart,
                   nStarts, nTrackedI, nTrackedE>>
    /\ UNCHANGED <<retryVars, recoveryVars, healthVars,
                   monitorVars, loggerVars, taxonomyVars, extVars>>

\* the wall clock advances
Tick ==
    /\ now < MaxTime
    /\ now' = now + 1
    /\ log' = <<>>
    /\ sent' = <<>>
    /\ lastCall' = ""
    /\ UNCHANGED <<currentSession, interactions, errors, histI, histE, sinceStart,
                   pagesSinceStart, cleanStart, nStarts, nTrackedI, nTrackedE, nPageViews>>
    /\ UNCHANGED <<retryVars, recoveryVars, healthVars,
                   monitorVars, loggerVars, taxonomyVars, extVars>>

TrackerInit == /\ currentSession = NoSession
               /\ interactions = <<>>
               /\ errors = <<>>
               /\ now = 0
               /\ sent = <<>>
               /\ histI = <<>>
               /\ histE = <<>>
               /\ sinceStart = <<>>
               /\ pagesSinceStart = <<>>
               /\ cleanStart = TRUE
               /\ nStarts = 0
               /\ nTrackedI = 0
               /\ nTrackedE = 0
               /\ nPageViews = 0
               /\ lastCall = ""

\* calls made to the tracker so far, endSession aside
TrackerCalls == nStarts + nTrackedI + nTrackedE + nPageViews

\* every entry point of the tracker, in every order, up to MaxTrackerCalls calls
TrackerNext ==
    \/ \E u \in UserIds, path \in Locations :
          TrackerCalls < MaxTrackerCalls /\ startSession(u, path)
    \/ endSession
    \/ \E t \in InteractionTypes, path \in Locations :
          TrackerCalls < MaxTrackerCalls /\ trackInteraction(t, path)
    \/ \E c \in ErrorContexts : TrackerCalls < MaxTrackerCalls /\ trackError(c)
    \/ \E page \in Pages : TrackerCalls < MaxTrackerCalls /\ trackPageView(page)
    \/ Tick

\* sessions ended while the page environment works and while it does not
MaxSinkCalls == 3
AnalyticsEnvs == {"ok", "throws"}

SinkInit == /\ analyticsEnv = "ok"
            /\ endRaised = FALSE

SinkNext ==
    \/ \E u \in UserIds, path \in Locations :
          TrackerCalls < MaxSinkCalls /\ startSession(u, path)
    \/ endSession
    \/ \E t \in InteractionTypes, path \in Locations :
          TrackerCalls < MaxSinkCalls /\ trackInteraction(t, path)
    \/ \E c \in ErrorContexts : TrackerCalls < MaxSinkCalls /\ trackError(c)
    \/ \E env \in AnalyticsEnvs : AnalyticsEnvChange(env)

\* long runs of the two buffered trackers, past both caps
BuffersNext ==
    \/ nTrackedI < MaxBufferedInteractions /\ trackInteraction("click", "/")
    \/ nTrackedE < MaxBufferedErrors /\ trackError("UI")

(***************************************************************************)
(* performHealthCheck                                                      *)
(***************************************************************************)
\* localStorage: working; setItem throws (quota exceeded); removeItem throws;
\* every access throws (storage unavailable)
StorageStates == {"ok", "setItemThrows", "removeItemThrows", "unavailable"}

EnvStates == [url : BOOLEAN, key : BOOLEAN, storage : StorageStates, remote : BOOLEAN]

\* validateEnvironmentVariables(['VITE_SUPABASE_URL', 'VITE_SUPABASE_ANON_KEY']) returns
EnvProbe(e) == e.url /\ e.key

\* the Supabase block: its try body is only `supabaseHealthy = true`
SupabaseProbe(e) == TRUE

\* localStorage.setItem then removeItem both return
StorageProbe(e) == e.storage = "ok"

HealthStatus(checks) ==
    LET allHealthy == checks.environment /\ checks.supabase /\ checks.storage
        someHealthy == checks.environment \/ checks.supabase \/ checks.storage
    IN IF allHealthy THEN "healthy" ELSE IF someHealthy THEN "degraded" ELSE "unhealthy"

\* mutant: a probe block without its catch clause lets the probe's error out
ProbeBlock_NoCatch(returned, name) ==
    [healthy |-> returned, errors |-> <<>>, raised |-> ~returned]

\* try { probe; healthy = true } catch (error) { errors.push(`${name}: ...`) }
\* returned: the probe returned without throwing
ProbeBlock(returned, name) ==
    [healthy |-> returned,
     errors |-> IF returned THEN <<>> ELSE <<name>>,
     raised |-> FALSE]

\* the three blocks, in the order they run
ProbeBlocks(e) ==
    <<ProbeBlock(EnvProbe(e), "Environment"),
      ProbeBlock(SupabaseProbe(e), "Supabase"),
      ProbeBlock(StorageProbe(e), "Storage")>>

\* the HealthCheck performHealthCheck resolves with; errors <<>> is `undefined`
HealthCheckOf(e, timestamp) ==
    LET b == ProbeBlocks(e)
        checks == [environment |-> b[1].healthy, supabase |-> b[2].healthy,
                   storage |-> b[3].healthy]
        errs == b[1].errors \o b[2].errors \o b[3].errors
    IN [status |-> HealthStatus(checks), timestamp |-> timestamp,
        checks |-> checks, errors |-> errs]

\* the promise rejects instead of resolving with a HealthCheck
HealthRejected == [status |-> "rejected"]

\* what the promise of performHealthCheck() settles with: an error that a block
\* lets out rejects it
performHealthCheckResult(e, timestamp) ==
    IF \E i \in 1..3 : ProbeBlocks(e)[i].raised
    THEN HealthRejected
    ELSE HealthCheckOf(e, timestamp)

\* the records performHealthCheck logs: a failing environment probe constructs
\* a ValidationError
performHealthCheckLog(e) == IF EnvProbe(e) THEN <<>> ELSE ConstructorLog

\* performHealthCheck()
performHealthCheck ==
    /\ health' = <<performHealthCheckResult(envState, now)>>
    /\ probedEnv' = <<envState>>
    /\ log' = performHealthCheckLog(envState)
    /\ UNCHANGED <<envState, retryVars, recoveryVars, trackerVars,
                   monitorVars, loggerVars, taxonomyVars, extVars>>

\* the environment changes: configuration, local storage, remote service
EnvChange(e) ==
    /\ e # envState
    /\ envState' = e
    /\ log' = <<>>
    /\ UNCHANGED <<health, probedEnv, retryVars, recoveryVars, trackerVars,
                   monitorVars, loggerVars, taxonomyVars, extVars>>

\* everything configured and reachable when the page loads
HealthInit == /\ envState = [url |-> TRUE, key |-> TRUE, storage |-> "ok", remote |-> TRUE]
              /\ health = <<>>
              /\ probedEnv = <<>>

HealthNext ==
    \/ performHealthCheck
    \/ \E e \in EnvStates : EnvChange(e)
    \/ Tick

(***************************************************************************)
(* HealthMonitor.  An entry of the history is the HealthCheck that a call   *)
(* got, with the ordinal of the call (ghost) as its identity.               *)
(* checkHealth suspends once, at `await performHealthCheck()`; the          *)
(* continuations of the suspended calls run in the order of the awaits      *)
(* (microtask queue), whoever made the call (interval timer or a caller).   *)
(***************************************************************************)
HistoryCap == 100
AlertWindow == 10

MaxHistoryChecks == 103
MaxAlertChecks == 11
MaxPendingChecks == 2

\* the thresholds of a new HealthMonitor; 0.05 and 0.8 are written in percent
DefaultThresholds == [responseTime |-> 3000, errorRate |-> 5, memoryUsage |-> 80]

\* arguments of updateAlertThresholds
ThresholdUpdates == {[errorRate |-> 5], [errorRate |-> 0], [errorRate |-> -1],
                     [memoryUsage |-> 90], [memoryUsage |-> 80]}

\* performance.memory: absent, or heap used and heap limit
MemoryOpts == {<<>>,
               <<[usedJSHeapSize |-> 80, jsHeapSizeLimit |-> 100]>>,
               <<[usedJSHeapSize |-> 90, jsHeapSizeLimit |-> 100]>>}

\* the outage the monitored page runs into: every subsystem down
MonitorEnvs == {[url |-> FALSE, key |-> FALSE, storage |-> "unavailable", remote |-> FALSE]}

\* mutant: the history is never trimmed
HistoryPush_NoTrim(history, entry) == Append(history, entry)

\* healthHistory.push(health), then slice(-100) when longer than 100
HistoryPush(history, entry) ==
    LET pushed == Append(history, entry)
    IN IF Len(pushed) > HistoryCap THEN LastN(pushed, HistoryCap) ELSE pushed

\* mutant: the comparison with the threshold is not strict
ErrorRateExceeded_NotStrict(history, thresholds) ==
    LET recentErrors == LastN(history, AlertWindow)
        unhealthy == Cardinality({i \in 1..Len(recentErrors) :
                                     recentErrors[i].check.status = "unhealthy"})
    IN unhealthy * 100 >= thresholds.errorRate * Len(recentErrors)

\* errorRate > this.alertThresholds.errorRate, with errorRate the share of
\* unhealthy entries in healthHistory.slice(-10); both sides times 100 * length
ErrorRateExceeded(history, thresholds) ==
    LET recentErrors == LastN(history, AlertWindow)
        unhealthy == Cardinality({i \in 1..Len(recentErrors) :
                                     recentErrors[i].check.status = "unhealthy"})
    IN unhealthy * 100 > thresholds.errorRate * Len(recentErrors)

\* mutant: the comparison with the memory threshold is not strict
MemoryExceeded_NotStrict(mem, thresholds) ==
    /\ mem # <<>>
    /\ mem[1].usedJSHeapSize * 100 >= thresholds.memoryUsage * mem[1].jsHeapSizeLimit

\* 'memory' in performance, and usedJSHeapSize / jsHeapSizeLimit > memoryUsage
MemoryExceeded(mem, thresholds) ==
    /\ mem # <<>>
    /\ mem[1].usedJSHeapSize * 100 > thresholds.memoryUsage * mem[1].jsHeapSizeLimit

\* the alerts array of checkAlerts
checkAlerts(history, thresholds, mem) ==
    (IF ErrorRateExceeded(history, thresholds) THEN <<"errorRate">> ELSE <<>>)
    \o (IF MemoryExceeded(mem, thresholds) THEN <<"memory">> ELSE <<>>)

\* what checkAlerts logs: logger.warn, then logger.error of sendAlerts
checkAlertsLog(found) ==
    IF found # <<>>
    THEN <<LogRec("warn", "HEALTH_MONITOR"), LogRec("error", "ALERTS")>>
    ELSE <<>>

\* healthMonitor.checkHealth() up to its await: performHealthCheck() has run
checkHealthCall ==
    /\ checkQueue' = Append(checkQueue,
                            [call |-> nChecks + 1,
                             check |-> performHealthCheckResult(envState, now)])
    /\ nChecks' = nChecks + 1
    /\ health' = <<performHealthCheckResult(envState, now)>>
    /\ probedEnv' = <<envState>>
    /\ log' = performHealthCheckLog(envState)
    /\ UNCHANGED <<healthHistory, alertThresholds, memory, alerts>>
    /\ UNCHANGED <<envState, retryVars, recoveryVars, trackerVars, loggerVars,
                   taxonomyVars, extVars>>

\* checkHealth() after its await: push, trim, checkAlerts; a rejected await
\* leaves checkHealth before the push
checkHealthResume ==
    /\ checkQueue # <<>>
    /\ LET p == Head(checkQueue)
           history == HistoryPush(healthHistory, p)
           found == checkAlerts(history, alertThresholds, memory)
       IN IF p.check = HealthRejected
          THEN /\ log' = <<>>
               /\ UNCHANGED <<healthHistory, alerts>>
          ELSE /\ healthHistory' = history
               /\ alerts' = found
               /\ log' = checkAlertsLog(found)
    /\ checkQueue' = Tail(checkQueue)
    /\ UNCHANGED <<alertThresholds, memory, nChecks>>
    /\ UNCHANGED <<retryVars, recoveryVars, trackerVars, healthVars, loggerVars,
                   taxonomyVars, extVars>>

\* updateAlertThresholds(thresholds): { ...this.alertThresholds, ...thresholds }
updateAlertThresholds(thresholds) ==
    /\ alertThresholds' =
          [k \in DOMAIN alertThresholds |->
              IF k \in DOMAIN thresholds THEN thresholds[k] ELSE alertThresholds[k]]
    /\ log' = <<LogRec("info", "HEALTH_MONITOR")>>
    /\ UNCHANGED <<healthHistory, memory, checkQueue, nChecks, alerts>>
    /\ UNCHANGED <<retryVars, recoveryVars, trackerVars, healthVars, loggerVars,
                   taxonomyVars, extVars>>

\* the heap figures the runtime reports change
MemoryChange(mem) ==
    /\ mem # memory
    /\ memory' = mem
    /\ log' = <<>>
    /\ UNCHANGED <<healthHistory, alertThresholds, checkQueue, nChecks, alerts>>
    /\ UNCHANGED <<retryVars, recoveryVars, trackerVars, healthVars, loggerVars,
                   taxonomyVars, extVars>>

MonitorInit == /\ healthHistory = <<>>
               /\ alertThresholds = DefaultThresholds
               /\ memory = <<>>
               /\ checkQueue = <<>>
               /\ nChecks = 0
               /\ alerts = <<>>

\* long runs of checkHealth, calls made while earlier ones are still suspended
HistoryNext ==
    \/ /\ nChecks < MaxHistoryChecks
       /\ Len(checkQueue) < MaxPendingChecks
       /\ checkHealthCall
    \/ checkHealthResume

\* checkHealth in a changing environment, with changing thresholds
AlertsNext ==
    \/ /\ nChecks < MaxAlertChecks
       /\ checkQueue = <<>>
       /\ checkHealthCall
    \/ checkHealthResume
    \/ \E e \in MonitorEnvs : EnvChange(e)
    \/ \E t \in ThresholdUpdates : updateAlertThresholds(t)
    \/ \E mem \in MemoryOpts : MemoryChange(mem)

(***************************************************************************)
(* Logger.  A field of a data object is <<>> when absent and <<value>> when *)
(* present; a context of "" is an absent context.  An entry carries the    *)
(* ordinal of its call (seq) in place of its timestamp and message.        *)
(* The item 'app_logs' of the local store is absent, a JSON list of        *)
(* entries, or a value that JSON.parse or push rejects.                    *)
(***************************************************************************)
LogCap == 100

MaxLogCalls == 2

LogLevels == {"debug", "info", "warn", "error"}
LogContexts == {"", "AUTH"}

Data(action, password, token, secret, error) ==
    [action |-> action, password |-> password, token |-> token,
     secret |-> secret, error |-> error]

\* an error value given to the logger: an Error instance or a plain object
ErrorValue(kind, message, token) ==
    [kind |-> kind, message |-> message, password |-> <<>>, token |-> token,
     secret |-> <<>>]

\* data arguments of the log calls: none, with credentials, with an Error
DataOpts == {<<>>,
             <<Data(<<"login">>, <<"p4ss">>, <<"t0k">>, <<"s3cr3t">>, <<>>)>>,
             <<Data(<<>>, <<>>, <<>>, <<>>,
                    <<ErrorValue("Error", <<"timeout">>, <<>>)>>)>>}

\* error arguments of trackApiCall
ErrorArgs == {<<>>,
              <<ErrorValue("Error", <<"timeout">>, <<>>)>>,
              <<ErrorValue("object", <<"denied">>, <<"t0k">>)>>}

\* the local store of the pages that log: configured, remote service reachable
LoggerEnvs == {e \in EnvStates : e.url /\ e.key /\ e.remote}

AbsentItem == [kind |-> "absent", logs |-> <<>>]
InvalidItem == [kind |-> "invalid", logs |-> <<>>]
JsonItem(logs) == [kind |-> "json", logs |-> logs]

\* the item 'guest_user_id'
GuestUserId == <<"guest_1">>

GetItemThrows(e) == e.storage = "unavailable"
SetItemThrows(e) == e.storage \in {"setItemThrows", "unavailable"}

\* JSON.parse(JSON.stringify(x)) of an error value: message, name and stack of an
\* Error instance are not enumerable and are lost
JsonErrorValue(err) ==
    IF err.kind = "Error" THEN [err EXCEPT !.kind = "object", !.message = <<>>] ELSE err

\* JSON.parse(JSON.stringify(entry)); absent (undefined) fields stay absent
JsonEntry(entry) ==
    IF entry.data = <<>> \/ entry.data[1].error = <<>>
    THEN entry
    ELSE [entry EXCEPT !.data =
            <<[entry.data[1] EXCEPT !.error = <<JsonErrorValue(entry.data[1].error[1])>>]>>]

\* sanitizeError(error): the three own fields of an Error instance, or a copy of
\* the object without password, token and secret
sanitizeError(err) ==
    IF err.kind = "Error"
    THEN [kind |-> "object", message |-> err.message, password |-> <<>>,
          token |-> <<>>, secret |-> <<>>]
    ELSE [err EXCEPT !.password = <<>>, !.token = <<>>, !.secret = <<>>]

\* getCurrentUserId(): the stored id, undefined when getItem throws
getCurrentUserId(e) == IF GetItemThrows(e) THEN <<>> ELSE GuestUserId

\* mutant: the overflowing list drops its newest entries
LogPush_KeepFirst(logs, entry) ==
    LET pushed == Append(logs, entry)
    IN IF Len(pushed) > LogCap THEN SubSeq(pushed, 1, LogCap) ELSE pushed

\* logs.push(entry), then splice(0, length - 100) when longer than 100
LogPush(logs, entry) == LastN(Append(logs, entry), LogCap)

\* mutant: storeLogLocally without its try/catch
storeLogLocally_NoCatch(entry, item, e) ==
    LET failed == GetItemThrows(e) \/ item.kind = "invalid" \/ SetItemThrows(e)
    IN [item |-> IF failed THEN item
                 ELSE JsonItem(LogPush(item.logs, JsonEntry(entry))),
        raised |-> failed]

\* storeLogLocally(entry): the new item and whether an error leaves the method.
\* getItem, JSON.parse, push and setItem are all inside the try; the catch is empty
storeLogLocally(entry, item, e) ==
    LET failed == GetItemThrows(e) \/ item.kind = "invalid" \/ SetItemThrows(e)
    IN [item |-> IF failed THEN item
                 ELSE JsonItem(LogPush(item.logs, JsonEntry(entry))),
        raised |-> FALSE]

\* console[consoleMethod]
ConsoleMethod(level) ==
    IF level = "error" THEN "error"
    ELSE IF level = "warn" THEN "warn"
    ELSE IF level = "info" THEN "info" ELSE "debug"

\* getStoredLogs()
getStoredLogs ==
    IF isDevelopment # <<TRUE>> THEN <<>>
    ELSE IF GetItemThrows(envState) \/ appLogs.kind = "invalid" THEN <<>>
    ELSE appLogs.logs

\* createLogEntry(level, message, context, data): every logger call ends here
createLogEntry(level, context, data) ==
    LET entry == [seq |-> nLogs + 1, level |-> level, context |-> context,
                  data |-> data, userId |-> getCurrentUserId(envState)]
        dev == isDevelopment = <<TRUE>>
        stored == storeLogLocally(entry, appLogs, envState)
    IN /\ isDevelopment # <<>>
       /\ consoleOut' = IF dev
                        THEN <<[method |-> ConsoleMethod(level),
                                context |-> IF context = "" THEN "APP" ELSE context,
                                data |-> data]>>
                        ELSE <<>>
       /\ appLogs' = IF dev THEN stored.item ELSE appLogs
       /\ logOutcome' = IF dev /\ stored.raised THEN "threw" ELSE "returned"
       /\ nLogs' = nLogs + 1
       /\ log' = <<LogRec(level, context)>>
       /\ UNCHANGED <<isDevelopment, retryVars, recoveryVars, trackerVars,
                      healthVars, monitorVars, taxonomyVars, extVars>>

\* new Logger(): reads the DEV flag of the build
LoggerConstructor(dev) ==
    /\ isDevelopment = <<>>
    /\ isDevelopment' = <<dev>>
    /\ log' = <<>>
    /\ UNCHANGED <<appLogs, consoleOut, logOutcome, nLogs>>
    /\ UNCHANGED <<retryVars, recoveryVars, trackerVars, healthVars, monitorVars,
                   taxonomyVars, extVars>>

\* logger.debug / info / warn / error (message, context, data)
LogCall(level, context, data) == createLogEntry(level, context, data)

\* logger.trackUserAction(action, data)
trackUserAction(data) == createLogEntry("info", "USER_ACTION", data)

\* logger.trackApiCall(endpoint, method, success, duration, error)
trackApiCall(success, error) ==
    createLogEntry(IF success THEN "info" ELSE "error", "API_CALL",
                   <<Data(<<"GET /exams">>, <<>>, <<>>, <<>>,
                          IF error = <<>> THEN <<>> ELSE <<sanitizeError(error[1])>>)>>)

\* logger.trackError(error, context, additionalData): the fields of the error,
\* then additionalData spread over them
LoggerTrackError(additionalData) ==
    createLogEntry("error", "ERROR",
                   IF additionalData = <<>>
                   THEN <<Data(<<"Error">>, <<>>, <<>>, <<>>, <<>>)>>
                   ELSE additionalData)

\* something else than the logger writes the item 'app_logs'
StoreCorrupted ==
    /\ ~SetItemThrows(envState)
    /\ appLogs # InvalidItem
    /\ appLogs' = InvalidItem
    /\ log' = <<>>
    /\ UNCHANGED <<isDevelopment, consoleOut, logOutcome, nLogs>>
    /\ UNCHANGED <<retryVars, recoveryVars, trackerVars, healthVars, monitorVars,
                   taxonomyVars, extVars>>

LoggerInit == /\ isDevelopment = <<>>
              /\ appLogs = AbsentItem
              /\ consoleOut = <<>>
              /\ logOutcome = ""
              /\ nLogs = 0

LoggerNext ==
    \/ \E dev \in BOOLEAN : LoggerConstructor(dev)
    \/ \E level \in LogLevels, context \in LogContexts, data \in DataOpts :
          nLogs < MaxLogCalls /\ LogCall(level, context, data)
    \/ \E data \in DataOpts : nLogs < MaxLogCalls /\ trackUserAction(data)
    \/ \E success \in BOOLEAN, error \in ErrorArgs :
          nLogs < MaxLogCalls /\ trackApiCall(success, error)
    \/ \E data \in {<<>>, <<Data(<<"retry">>, <<>>, <<>>, <<>>, <<>>)>>} :
          nLogs < MaxLogCalls /\ LoggerTrackError(data)
    \/ StoreCorrupted
    \/ \E e \in LoggerEnvs : EnvChange(e)

\* a long run of log calls of one build, the local store working throughout
MaxStoredLogs == 102

LogStoreNext ==
    \/ \E dev \in BOOLEAN : LoggerConstructor(dev)
    \/ nLogs < MaxStoredLogs /\ LogCall("info", "", <<>>)

(***************************************************************************)
(* Error taxonomy: the constructors and handleError as entry points.       *)
(* `thrown` is the error value a caller holds; every creation of an error  *)
(* value takes the next ordinal of nMade.                                  *)
(***************************************************************************)
MaxErrors == 2

Messages == {"not found", "bad input"}
OptContexts == {<<>>, <<"SIGN_IN">>}
ThrownValues == {Value("string", "boom", 0), Value("number", "", 42),
                 Value("null", "", 0)}

\* throw new <Variant>(message, context, cause)
ConstructError(variant, message, context, cause) ==
    /\ cause # <<>> => variant \in {"NetworkError", "DatabaseError"}
    /\ thrown' = <<NewVariantError(variant, message, context, cause, nMade + 1)>>
    /\ nMade' = nMade + 1
    /\ log' = ConstructorLog
    /\ UNCHANGED classified
    /\ UNCHANGED <<retryVars, recoveryVars, trackerVars, healthVars, monitorVars,
                   loggerVars, extVars>>

\* throw new Error(message)
ThrowNative(message) ==
    /\ thrown' = <<NativeError(message, nMade + 1)>>
    /\ nMade' = nMade + 1
    /\ log' = <<>>
    /\ UNCHANGED classified
    /\ UNCHANGED <<retryVars, recoveryVars, trackerVars, healthVars, monitorVars,
                   loggerVars, extVars>>

\* throw value
ThrowValue(value) ==
    /\ thrown' = <<ThrownValue(value, nMade + 1)>>
    /\ nMade' = nMade + 1
    /\ log' = <<>>
    /\ UNCHANGED classified
    /\ UNCHANGED <<retryVars, recoveryVars, trackerVars, healthVars, monitorVars,
                   loggerVars, extVars>>

\* handleError(thrown, context); the caller holds the classified error afterwards
HandleErrorCall(context) ==
    /\ thrown # <<>>
    /\ LET result == handleError(thrown[1], context)
       IN /\ classified' = <<thrown[1], result>>
          /\ thrown' = <<result>>
    /\ log' = handleErrorLog(thrown[1])
    /\ UNCHANGED nMade
    /\ UNCHANGED <<retryVars, recoveryVars, trackerVars, healthVars, monitorVars,
                   loggerVars, extVars>>

TaxonomyInit == /\ thrown = <<>>
                /\ classified = <<>>
                /\ nMade = 0

TaxonomyNext ==
    \/ \E variant \in Variants, message \in Messages, context \in OptContexts,
          cause \in {<<>>, <<"socket closed">>} :
          nMade < MaxErrors /\ ConstructError(variant, message, context, cause)
    \/ \E message \in Messages : nMade < MaxErrors /\ ThrowNative(message)
    \/ \E value \in ThrownValues : nMade < MaxErrors /\ ThrowValue(value)
    \/ \E context \in OptContexts : HandleErrorCall(context)

(***************************************************************************)
(* withTimeout(promise, timeoutMs, context).  The promise handed in is     *)
(* already running (or already settled); the timer set by withTimeout is   *)
(* never cleared.  Promise.race settles with the first of the two that     *)
(* settles; what settles later finds the race decided.                     *)
(***************************************************************************)
WtCalls == {"t1", "t2"}
TimeoutOpts == {0, 5000}
WtOutcomeKinds == {"value", "ApplicationError", "Error"}
\* the promise handed to withTimeout: still pending, or settled with an outcome
WtPromiseStates == {"pending"} \cup WtOutcomeKinds

WtIdle == [pc |-> "idle", timeoutMs |-> 0, context |-> <<>>, op |-> "none",
           opOutcome |-> <<>>, timer |-> "none", result |-> <<>>]

\* what the operation settles with: a value, or an error of class kind
WtOutcome(kind) ==
    IF kind = "value" THEN [cls |-> "value", result |-> "v"] ELSE RawError(kind, 1)

\* new NetworkError(`Operation timed out after ${timeoutMs}ms`, context)
TimeoutError(timeoutMs, context) ==
    NewVariantError("NetworkError",
                    "Operation timed out after " \o ToString(timeoutMs) \o "ms",
                    context, <<>>, 0)

\* mutant: whatever settles last decides the race
RaceSettle_LastWins(c, outcome) ==
    [c EXCEPT !.pc = "settled", !.result = <<outcome>>]

\* Promise.race([promise, timeoutPromise]): the first settlement decides, a later
\* one is ignored
RaceSettle(c, outcome) ==
    IF c.pc = "pending"
    THEN [c EXCEPT !.pc = "settled", !.result = <<outcome>>]
    ELSE c

\* withTimeout(promise, timeoutMs, context): arms the timer and races; a promise
\* that is already settled wins the race before any timer can fire
WithTimeoutCall(t, timeoutMs, context, promise) ==
    /\ wt[t].pc = "idle"
    /\ LET c == [WtIdle EXCEPT !.pc = "pending", !.timeoutMs = timeoutMs,
                               !.context = context, !.op = "running",
                               !.timer = "armed"]
       IN wt' = [wt EXCEPT ![t] =
                   IF promise = "pending" THEN c
                   ELSE RaceSettle([c EXCEPT !.op = "settled",
                                             !.opOutcome = <<WtOutcome(promise)>>],
                                   WtOutcome(promise))]
    /\ log' = <<>>
    /\ UNCHANGED <<coreVars, exceptTimeout>>

\* the operation settles, with a value or with an error
WtOperationSettles(t, kind) ==
    /\ wt[t].op = "running"
    /\ wt' = [wt EXCEPT ![t] =
                RaceSettle([@ EXCEPT !.op = "settled", !.opOutcome = <<WtOutcome(kind)>>],
                           WtOutcome(kind))]
    /\ log' = <<>>
    /\ UNCHANGED <<coreVars, exceptTimeout>>

\* the timer callback runs: it constructs the NetworkError (which reports itself
\* to the logger) and rejects timeoutPromise
WtTimerFires(t) ==
    /\ wt[t].timer = "armed"
    /\ wt' = [wt EXCEPT ![t] =
                RaceSettle([@ EXCEPT !.timer = "fired"],
                           TimeoutError(wt[t].timeoutMs, wt[t].context))]
    /\ log' = ConstructorLog
    /\ UNCHANGED <<coreVars, exceptTimeout>>

TimeoutInit == wt = [t \in WtCalls |-> WtIdle]

TimeoutNext ==
    \/ \E t \in WtCalls, timeoutMs \in TimeoutOpts, context \in OptContexts,
          promise \in WtPromiseStates :
          WithTimeoutCall(t, timeoutMs, context, promise)
    \/ \E t \in WtCalls, kind \in WtOutcomeKinds : WtOperationSettles(t, kind)
    \/ \E t \in WtCalls : WtTimerFires(t)

(***************************************************************************)
(* PerformanceMonitor.  An observer is named by the initialize() call that  *)
(* created it and the entry type it observes.  observe() throws for an      *)
(* entry type the browser does not support.                                 *)
(***************************************************************************)
MaxInits == 2

\* the entry types of setupWebVitals, in the order of the observe() calls
WebVitals == <<"paint", "largest-contentful-paint", "first-input", "layout-shift">>
EntryTypes == {WebVitals[i] : i \in 1..Len(WebVitals)} \cup {"resource"}

Observer(n, type) == [init |-> n, type |-> type]

\* the observe() calls of setupWebVitals that return: those before the first one
\* that throws
WebVitalsObserved(support) ==
    {i \in 1..Len(WebVitals) : \A j \in 1..i : WebVitals[j] \in support}

\* this.observers.push(fcpObserver, lcpObserver, fidObserver, clsObserver) is
\* reached when none of the four observe() calls threw
WebVitalsPushed(n, support) ==
    IF \A i \in 1..Len(WebVitals) : WebVitals[i] \in support
    THEN [i \in 1..Len(WebVitals) |-> Observer(n, WebVitals[i])]
    ELSE <<>>

\* setupResourceMonitoring: observe, then push
ResourcePushed(n, support) ==
    IF "resource" \in support THEN <<Observer(n, "resource")>> ELSE <<>>

\* the records initialize() logs: a warning per setup whose try block threw,
\* then the info record
initializeLog(support) ==
    (IF \A i \in 1..Len(WebVitals) : WebVitals[i] \in support THEN <<>>
     ELSE <<LogRec("warn", "MONITORING")>>)
    \o (IF "resource" \in support THEN <<>> ELSE <<LogRec("warn", "MONITORING")>>)
    \o <<LogRec("info", "MONITORING")>>

\* initialize(), in a browser that supports the entry types of support
initialize(support) ==
    /\ observers' = observers \o WebVitalsPushed(nInits + 1, support)
                              \o ResourcePushed(nInits + 1, support)
    /\ subscribed' = subscribed
                       \cup {Observer(nInits + 1, WebVitals[i]) :
                                i \in WebVitalsObserved(support)}
                       \cup {Observer(nInits + 1, type) : type \in {"resource"} \cap support}
    /\ samplers' = samplers + 1
    /\ nInits' = nInits + 1
    /\ perfSupport' = support
    /\ lastPerfCall' = "initialize"
    /\ log' = initializeLog(support)
    /\ UNCHANGED <<coreVars, exceptPerf>>

\* destroy(): disconnect every observer of the list, empty the list
destroy ==
    /\ subscribed' = subscribed \ {observers[i] : i \in 1..Len(observers)}
    /\ observers' = <<>>
    /\ lastPerfCall' = "destroy"
    /\ log' = <<>>
    /\ UNCHANGED <<samplers, nInits, perfSupport>>
    /\ UNCHANGED <<coreVars, exceptPerf>>

\* the callback of a memory sampling interval runs; it logs when the runtime has
\* memory telemetry
MemorySamplerFires ==
    /\ samplers > 0
    /\ log' = IF memory # <<>> THEN <<LogRec("debug", "PERFORMANCE")>> ELSE <<>>
    /\ lastPerfCall' = "sampler"
    /\ UNCHANGED <<observers, subscribed, samplers, nInits, perfSupport>>
    /\ UNCHANGED <<coreVars, exceptPerf>>

PerfInit == /\ observers = <<>>
            /\ subscribed = {}
            /\ samplers = 0
            /\ nInits = 0
            /\ perfSupport = {}
            /\ lastPerfCall = ""

PerfNext ==
    \/ \E support \in SUBSET EntryTypes : nInits < MaxInits /\ initialize(support)
    \/ destroy
    \/ MemorySamplerFires
    \/ \E mem \in MemoryOpts : MemoryChange(mem)

(***************************************************************************)
(* ErrorBoundary.  state is the React state of the instance (setState is    *)
(* taken as applied when the handler returns), retryCount its private       *)
(* field; nThrows, nRetries and nCleared are ghosts: the errors caught, the *)
(* handleRetry calls made, the retries that cleared the error state.        *)
(***************************************************************************)
maxRetries == 3
MaxThrows == 4
MaxRetryCalls == 4

Boundaries == {"b1", "b2"}

\* the state the constructor sets, and handleRetry sets again
NoErrorState == [hasError |-> FALSE, error |-> <<>>, errorInfo |-> <<>>]

NewBoundary == [state |-> NoErrorState, retryCount |-> 0,
                nThrows |-> 0, nRetries |-> 0, nCleared |-> 0]

\* mutant: the ceiling itself still allows a retry
RetryAllowed_Inclusive(retryCount) == retryCount <= maxRetries

\* this.retryCount < this.maxRetries
RetryAllowed(retryCount) == retryCount < maxRetries

\* a child throws while rendering: getDerivedStateFromError, then
\* componentDidCatch (logger.trackError, setState)
ComponentDidCatch(b) ==
    /\ ~boundary[b].state.hasError
    /\ boundary' = [boundary EXCEPT ![b] =
                      [@ EXCEPT !.state = [hasError |-> TRUE,
                                           error |-> <<boundary[b].nThrows + 1>>,
                                           errorInfo |-> <<boundary[b].nThrows + 1>>],
                                !.nThrows = @ + 1]]
    /\ log' = <<LogRec("error", "ERROR")>>
    /\ UNCHANGED <<coreVars, exceptBoundary>>

\* handleRetry(): the fallback's retry callback, which a fallback may also keep
\* and call after the boundary has recovered
handleRetry(b) ==
    /\ boundary' = [boundary EXCEPT ![b] =
                      IF RetryAllowed(boundary[b].retryCount)
                      THEN [@ EXCEPT !.retryCount = @ + 1, !.state = NoErrorState,
                                     !.nRetries = @ + 1, !.nCleared = @ + 1]
                      ELSE [@ EXCEPT !.nRetries = @ + 1]]
    /\ log' = IF RetryAllowed(boundary[b].retryCount)
              THEN <<LogRec("info", "ErrorBoundary")>>
              ELSE <<LogRec("error", "ErrorBoundary")>>
    /\ UNCHANGED <<coreVars, exceptBoundary>>

BoundaryInit == boundary = [b \in Boundaries |-> NewBoundary]

BoundaryNext ==
    \/ \E b \in Boundaries : boundary[b].nThrows < MaxThrows /\ ComponentDidCatch(b)
    \/ \E b \in Boundaries : boundary[b].nRetries < MaxRetryCalls /\ handleRetry(b)

(***************************************************************************)
(* Readers of the monitor and of the sink.  A value a reader holds is       *)
(* either an array/object of its own (ref "copy", with its contents) or the  *)
(* very array/object of the owner (ref "owner"): what the reader then sees   *)
(* and changes is the owner's field.                                        *)
(***************************************************************************)
MaxCopyChecks == 2
MaxCopyCalls == 2
MaxReaderSteps == 4

\* mutant: the history array itself is handed out
getHealthHistory_NoCopy(history) == [ref |-> "owner", items |-> <<>>]

\* getHealthHistory(): [...this.healthHistory]
getHealthHistory(history) == [ref |-> "copy", items |-> history]

\* getAlertThresholds(): { ...this.alertThresholds }
getAlertThresholds(thresholds) == [ref |-> "copy", fields |-> thresholds]

\* the array a reader holds, as the reader sees it
HistoryView(held, history) == IF held.ref = "owner" THEN history ELSE held.items

\* the object a reader holds, as the reader sees it
ThresholdsView(held, thresholds) == IF held.ref = "owner" THEN thresholds ELSE held.fields

\* what a reader does to an array: empties it (length = 0), or pushes an entry
\* of its own
ArrayMutations == {"clear", "push"}
MutatedArray(items, mutation, entry) ==
    IF mutation = "clear" THEN <<>> ELSE Append(items, entry)

\* an entry made up by a reader
ForgedCheck == [call |-> 0, check |-> HealthCheckOf(envState, now)]
ForgedInteraction == [id |-> 0, timestamp |-> now, type |-> "click", page |-> "/"]
ForgedError == [id |-> 0, timestamp |-> now, context |-> "UI", userId |-> "none",
                sessionId |-> UnknownSession]

\* a reader calls healthMonitor.getHealthHistory()
GetHealthHistory ==
    /\ heldHistory' = <<getHealthHistory(healthHistory)>>
    /\ nGets' = nGets + 1
    /\ log' = <<>>
    /\ UNCHANGED <<heldThresholds, heldSession, nMutations>>
    /\ UNCHANGED <<coreVars, exceptReader>>

\* a reader calls healthMonitor.getAlertThresholds()
GetAlertThresholds ==
    /\ heldThresholds' = <<getAlertThresholds(alertThresholds)>>
    /\ nGets' = nGets + 1
    /\ log' = <<>>
    /\ UNCHANGED <<heldHistory, heldSession, nMutations>>
    /\ UNCHANGED <<coreVars, exceptReader>>

\* the sink keeps the session object endSession() has just handed to it
SinkKeepsSession ==
    /\ sent # <<>>
    /\ heldSession' = sent
    /\ nGets' = nGets + 1
    /\ log' = <<>>
    /\ UNCHANGED <<heldHistory, heldThresholds, nMutations>>
    /\ UNCHANGED <<coreVars, exceptReader>>

\* the reader changes the array it got from getHealthHistory()
ReaderMutatesHistory(mutation) ==
    /\ heldHistory # <<>>
    /\ LET held == heldHistory[1]
           mutated == MutatedArray(HistoryView(held, healthHistory), mutation, ForgedCheck)
       IN IF held.ref = "owner"
          THEN healthHistory' = mutated /\ UNCHANGED heldHistory
          ELSE heldHistory' = <<[held EXCEPT !.items = mutated]>> /\ UNCHANGED healthHistory
    /\ nMutations' = nMutations + 1
    /\ log' = <<>>
    /\ UNCHANGED <<heldThresholds, heldSession, nGets>>
    /\ UNCHANGED <<alertThresholds, memory, checkQueue, nChecks, alerts>>
    /\ UNCHANGED <<retryVars, recoveryVars, trackerVars, healthVars, loggerVars,
                   taxonomyVars, exceptReader>>

\* the reader changes a field of the object it got from getAlertThresholds()
ReaderMutatesThresholds ==
    /\ heldThresholds # <<>>
    /\ LET held == heldThresholds[1]
           mutated == [ThresholdsView(held, alertThresholds) EXCEPT !.memoryUsage = 0]
       IN IF held.ref = "owner"
          THEN alertThresholds' = mutated /\ UNCHANGED heldThresholds
          ELSE heldThresholds' = <<[held EXCEPT !.fields = mutated]>>
               /\ UNCHANGED alertThresholds
    /\ nMutations' = nMutations + 1
    /\ log' = <<>>
    /\ UNCHANGED <<heldHistory, heldSession, nGets>>
    /\ UNCHANGED <<healthHistory, memory, checkQueue, nChecks, alerts>>
    /\ UNCHANGED <<retryVars, recoveryVars, trackerVars, healthVars, loggerVars,
                   taxonomyVars, exceptReader>>

\* the sink changes the interaction and error lists of the session it kept:
\* they are the arrays endSession() made with [...this.interactions] and
\* [...this.errors]
SinkMutatesSession ==
    /\ heldSession # <<>>
    /\ heldSession' =
          <<[heldSession[1] EXCEPT
               !.interactions = MutatedArray(@, "push", ForgedInteraction),
               !.errors = MutatedArray(@, "push", ForgedError)]>>
    /\ nMutations' = nMutations + 1
    /\ log' = <<>>
    /\ UNCHANGED <<heldHistory, heldThresholds, nGets>>
    /\ UNCHANGED <<coreVars, exceptReader>>

ReaderInit == /\ heldHistory = <<>>
              /\ heldThresholds = <<>>
              /\ heldSession = <<>>
              /\ nGets = 0
              /\ nMutations = 0

\* steps made by the readers so far
ReaderSteps == nGets + nMutations

\* the owners at work, readers getting values and changing them in between
CopiesNext ==
    \/ /\ nChecks < MaxCopyChecks
       /\ checkQueue = <<>>
       /\ checkHealthCall
    \/ checkHealthResume
    \/ updateAlertThresholds([memoryUsage |-> 90])
    \/ TrackerCalls < MaxCopyCalls /\ startSession("u1", "/")
    \/ TrackerCalls < MaxCopyCalls /\ trackInteraction("click", "/")
    \/ endSession
    \/ ReaderSteps < MaxReaderSteps /\ GetHealthHistory
    \/ ReaderSteps < MaxReaderSteps /\ GetAlertThresholds
    \/ ReaderSteps < MaxReaderSteps /\ SinkKeepsSession
    \/ \E mutation \in ArrayMutations :
          ReaderSteps < MaxReaderSteps /\ ReaderMutatesHistory(mutation)
    \/ ReaderSteps < MaxReaderSteps /\ ReaderMutatesThresholds
    \/ ReaderSteps < MaxReaderSteps /\ SinkMutatesSession

(***************************************************************************)
(* useHealthCheck / useConnectionStatus / ConnectionStatus.  performCheck   *)
(* suspends once, at `await performHealthCheck()`; the mount effect, the    *)
(* interval timer and refresh() all call it, so several calls can be        *)
(* suspended at once.  A property that an object does not have reads as     *)
(* undefined (<<>>).                                                        *)
(***************************************************************************)
MaxHookChecks == 3

\* the HealthCheck the catch clause of performCheck sets
HookCatchHealth(timestamp) ==
    [status |-> "unhealthy", timestamp |-> timestamp,
     checks |-> [environment |-> FALSE, supabase |-> FALSE, storage |-> FALSE],
     errors |-> <<"Health check failed">>]

\* the record performCheck logs about the HealthCheck it got
PerformCheckLog(status) ==
    IF status = "unhealthy" THEN LogRec("error", "HEALTH_CHECK")
    ELSE IF status = "degraded" THEN LogRec("warn", "HEALTH_CHECK")
    ELSE LogRec("debug", "HEALTH_CHECK")

\* performCheck() up to its await
PerformCheckStart ==
    /\ nHookChecks < MaxHookChecks
    /\ nHookChecks' = nHookChecks + 1
    /\ hookLoading' = TRUE
    /\ hookPending' = Append(hookPending, performHealthCheckResult(envState, now))
    /\ log' = <<LogRec("debug", "HEALTH_CHECK")>> \o performHealthCheckLog(envState)
    /\ UNCHANGED <<hookHealth, coreVars, exceptHook>>

\* performCheck() from its await to its end
PerformCheckResume ==
    /\ hookPending # <<>>
    /\ LET settled == Head(hookPending)
       IN IF settled.status = "rejected"
          THEN /\ hookHealth' = <<HookCatchHealth(now)>>
               /\ log' = <<LogRec("error", "HEALTH_CHECK")>>
          ELSE /\ hookHealth' = <<settled>>
               /\ log' = <<PerformCheckLog(settled.status)>>
    /\ hookPending' = Tail(hookPending)
    /\ hookLoading' = FALSE
    /\ UNCHANGED <<nHookChecks, coreVars, exceptHook>>

\* what useHealthCheck returns (of its six properties, the three that the
\* connection status reads)
useHealthCheck ==
    [health |-> hookHealth,
     loading |-> hookLoading,
     isHealthy |-> hookHealth # <<>> /\ hookHealth[1].status = "healthy"]

\* what useConnectionStatus returns
useConnectionStatus ==
    LET h == useHealthCheck
    IN [isOnline |-> h.isHealthy,
        isOffline |-> ~h.isHealthy /\ h.health # <<>>,
        isChecking |-> h.loading]

\* obj.name
Prop(obj, name) == IF name \in DOMAIN obj THEN <<obj[name]>> ELSE <<>>

\* if (v)
Truthy(v) == v # <<>> /\ v[1] = TRUE

\* what the ConnectionStatus component renders: it destructures isOnline,
\* isOffline and isChecking from the value useHealthCheck returns
ConnectionStatus ==
    LET r == useHealthCheck
    IN IF Truthy(Prop(r, "isChecking")) THEN "checking"
       ELSE IF Truthy(Prop(r, "isOffline")) THEN "offline"
       ELSE "online"

HookInit == /\ hookHealth = <<>>
            /\ hookLoading = FALSE
            /\ hookPending = <<>>
            /\ nHookChecks = 0

ConnectionNext ==
    \/ PerformCheckStart
    \/ PerformCheckResume
    \/ \E e \in EnvStates : EnvChange(e)

(***************************************************************************)
(* Specifications                                                          *)
(***************************************************************************)
Init == /\ log = <<>>
        /\ RetryInit
        /\ RecoveryInit
        /\ TrackerInit
        /\ HealthInit
        /\ MonitorInit
        /\ LoggerInit
        /\ TaxonomyInit
        /\ TimeoutInit
        /\ PerfInit
        /\ SinkInit
        /\ BoundaryInit
        /\ ReaderInit
        /\ HookInit

SpecRetry == Init /\ [][RetryNext]_vars

SpecRecovery == Init /\ [][RecoveryNext]_vars

SpecRecoverySolo == Init /\ [][RecoverySoloNext]_vars

SpecTracker == Init /\ [][TrackerNext]_vars

SpecBuffers == Init /\ [][BuffersNext]_vars

SpecHealth == Init /\ [][HealthNext]_vars

SpecHistory == Init /\ [][HistoryNext]_vars

SpecAlerts == Init /\ [][AlertsNext]_vars

SpecLogger == Init /\ [][LoggerNext]_vars

SpecLogStore == Init /\ [][LogStoreNext]_vars

SpecTaxonomy == Init /\ [][TaxonomyNext]_vars

SpecTimeout == Init /\ [][TimeoutNext]_vars

SpecPerf == Init /\ [][PerfNext]_vars

SpecSink == Init /\ [][SinkNext]_vars

SpecBoundary == Init /\ [][BoundaryNext]_vars

SpecCopies == Init /\ [][CopiesNext]_vars

SpecConnection == Init /\ [][ConnectionNext]_vars


(***************************************************************************)
(* Properties of retryWithBackoff (checked under SpecRetry)                *)
(***************************************************************************)

\* C1: a call with maxAttempts = M >= 1 whose operation first succeeds on attempt k
\* returns that attempt's value after exactly k <= M invocations and exactly k - 1
\* delays (one after each of the k - 1 failed attempts), and the operation is not
\* invoked, nor a timer left pending, after the success.
C1_SuccessAfterKInvocations ==
    \A r \in RetryCalls :
        retry[r].pc = "returned" =>
            LET c == retry[r]
                k == c.result[1].origin
            IN /\ c.maxAttempts >= 1
               /\ k \in 1..c.maxAttempts
               /\ c.result[1].cls = "value"
               /\ c.opCalls = k
               /\ c.delays = k - 1
               /\ k > 1 => c.lastError[1].origin = k - 1
               /\ c.pending = 0
               /\ c.timers = 0

\* C1 witness: a call returned the value of its third and last allowed attempt
C1_Witness ==
    \E r \in RetryCalls :
        /\ retry[r].pc = "returned"
        /\ retry[r].maxAttempts = 3
        /\ retry[r].result[1].origin = 3
        /\ retry[r].delays = 2

\* C2: a call with maxAttempts = M >= 1 whose operation fails M times throws the
\* classified error of attempt M, after exactly M invocations and exactly M - 1
\* delays: nothing is awaited after the final attempt.
C2_ExhaustedThrowsLastError ==
    \A r \in RetryCalls :
        (retry[r].pc = "thrown" /\ retry[r].maxAttempts >= 1) =>
            LET c == retry[r]
            IN /\ c.result = c.lastError
               /\ IsAppError(c.result[1])
               /\ c.result[1].origin = c.maxAttempts
               /\ c.opCalls = c.maxAttempts
               /\ c.delays = c.maxAttempts - 1
               /\ c.pending = 0
               /\ c.timers = 0

\* C2 witness: three attempts failed and the third one's error was thrown
C2_Witness ==
    \E r \in RetryCalls :
        /\ retry[r].pc = "thrown"
        /\ retry[r].maxAttempts = 3
        /\ retry[r].opCalls = 3
        /\ retry[r].delays = 2
        /\ retry[r].result[1].origin = 3

\* C3: within one call the attempts are strictly sequential: at most one
\* invocation of the operation is in flight, never together with a pending
\* backoff timer; attempt N is in flight only after N - 1 attempts have failed
\* and N - 1 backoff timers have fired, whatever the other call and the other
\* timers do in between.
C3_AttemptsSequential ==
    \A r \in RetryCalls :
        LET c == retry[r]
        IN /\ c.pending \in {0, 1}
           /\ c.timers \in {0, 1}
           /\ c.pending + c.timers <= 1
           /\ (c.pending = 1) <=> (c.pc = "running")
           /\ (c.timers = 1) <=> (c.pc = "sleeping")
           /\ c.pc = "running" => c.opCalls = c.attempt
           /\ c.delays <= c.opCalls - c.pending
           /\ c.opCalls <= (c.delays - c.timers) + 1

\* C3 witness: one call runs its third attempt while the other sleeps and
\* another timer has fired
C3_Witness ==
    /\ retry["r1"].pc = "running"
    /\ retry["r1"].attempt = 3
    /\ retry["r2"].pc = "sleeping"
    /\ otherTimers >= 1


(***************************************************************************)
(* Properties of AutoRecovery.attemptRecovery (checked under SpecRecovery)  *)
(***************************************************************************)

\* no call chain for context x is between its entry and its return or throw
RecQuiescent(x) ==
    \A p \in RecCalls : rec[p].context = x => rec[p].pc \in {"idle", "returned", "thrown"}

\* the call chains the step entered attemptRecovery with for context x
RecEntered(x) ==
    {p \in RecCalls : rec'[p] # rec[p] /\ rec'[p].context = x /\ rec[p].pc # "running"}

\* C4: once the operation has failed 3 times in a row for context X and no call
\* for X is in flight, every attemptRecovery call for X throws the "max recovery
\* attempts reached" error without invoking the operation, and the state stays
\* that way (3 failures in a row, counter at the ceiling, nothing in flight), so
\* every later call for X does the same.
C4_CeilingRefusesFurtherCalls ==
    [][\A x \in Contexts :
          (recFails[x] >= maxAttempts /\ RecQuiescent(x)) =>
              /\ RecGet(x) >= maxAttempts
              /\ x \notin recInvoked'
              /\ \A p \in RecEntered(x) :
                    /\ rec'[p].pc = "thrown"
                    /\ rec'[p].result = <<MaxRecoveryError(x)>>
              /\ recFails'[x] >= maxAttempts
              /\ RecQuiescent(x)']_vars

\* C4 witness: after three failures in a row for X, two later calls for X were
\* both refused with the ceiling error
C4_Witness ==
    /\ recFails["X"] >= maxAttempts
    /\ recStarted = 3
    /\ \A p \in RecCalls :
          /\ rec[p].pc = "thrown"
          /\ rec[p].result = <<MaxRecoveryError("X")>>
    /\ recInvoked = {}

\* C5: whenever the operation succeeds inside attemptRecovery for context X, at
\* whatever depth of the retry chain, the counter of X is absent afterwards and
\* the call returns the value the operation resolved with; and a call for a
\* context whose counter is absent starts from zero attempts and invokes the
\* operation.
C5_SuccessResetsCounter ==
    [][\A p \in RecCalls :
          /\ (rec[p].pc = "running" /\ rec'[p].pc = "returned") =>
                /\ rec[p].context \notin DOMAIN recoveryAttempts'
                /\ recOutcome' # <<>>
                /\ recOutcome'[1].kind = "value"
                /\ rec'[p].result = recOutcome'
          /\ (p \in RecEntered(rec'[p].context)
                /\ rec'[p].context \notin DOMAIN recoveryAttempts) =>
                /\ rec'[p].pc = "running"
                /\ rec'[p].attempts = 0
                /\ rec'[p].context \in recInvoked']_vars

\* C5 witness: the operation failed once and succeeded on the second attempt for
\* X, and the counter of X is absent again
C5_Witness ==
    \E p \in RecCalls :
        /\ rec[p].pc = "returned"
        /\ rec[p].context = "X"
        /\ rec[p].depth = 2
        /\ rec[p].attempts = 1
        /\ recOutcome # <<>>
        /\ "X" \notin DOMAIN recoveryAttempts


(***************************************************************************)
(* Properties of UserTracker (checked under SpecTracker and SpecBuffers)   *)
(***************************************************************************)

TailOf(h, cap) ==
    LET n == Min(Len(h), cap)
    IN [i \in 1..n |-> h[Len(h) - n + i]]

\* C7: after any sequence of n trackInteraction and e trackError calls the
\* interaction buffer holds exactly the last min(n, 100) tracked interactions and
\* the error buffer exactly the last min(e, 50) tracked errors, each in call order.
C7_BuffersAreBoundedFifo ==
    /\ Len(histI) = nTrackedI
    /\ Len(histE) = nTrackedE
    /\ Len(interactions) = Min(nTrackedI, InteractionCap)
    /\ Len(errors) = Min(nTrackedE, ErrorCap)
    /\ interactions = TailOf(histI, InteractionCap)
    /\ errors = TailOf(histE, ErrorCap)

\* C7 witness: both buffers have overflowed; the two oldest entries of each are gone
C7_Witness ==
    /\ nTrackedI = InteractionCap + 2
    /\ nTrackedE = ErrorCap + 2
    /\ Len(interactions) = InteractionCap
    /\ interactions[1].id = 3
    /\ Len(errors) = ErrorCap
    /\ errors[1].id = 3

\* C8 as claimed: after endSession() returns there is no active session and both
\* buffers are empty, in whatever state it was called.
C8_ClearedInWhateverState ==
    lastCall = "endSession" =>
        /\ ~HasSession
        /\ interactions = <<>>
        /\ errors = <<>>

\* C8 as amended: after endSession() returns there is no active session; a call
\* made while a session was active leaves both buffers empty, a call made while
\* no session was active leaves both buffers as they were.
C8_ClearedWhenSessionActive ==
    [][lastCall' = "endSession" =>
          IF HasSession
          THEN /\ ~HasSession'
               /\ interactions' = <<>>
               /\ errors' = <<>>
          ELSE /\ ~HasSession'
               /\ UNCHANGED <<interactions, errors>>]_vars

\* C8 witness: endSession() sealed a session holding an interaction and an error
\* and left the tracker empty
C8_Witness ==
    /\ lastCall = "endSession"
    /\ sent # <<>>
    /\ sent[1].interactions # <<>>
    /\ sent[1].errors # <<>>
    /\ ~HasSession
    /\ interactions = <<>>
    /\ errors = <<>>

\* C9: trackPageView(page) with no active session changes no tracker state and
\* logs nothing; with an active session it appends page to the end of the
\* session's pageViews, changes nothing else, and logs exactly one info record.
C9_PageViewOnlyInSession ==
    [][lastCall' = "trackPageView" /\ nPageViews' # nPageViews =>
          LET page == pagesSinceStart'[Len(pagesSinceStart')]
          IN IF HasSession
             THEN /\ currentSession' =
                        <<[Session EXCEPT !.pageViews = Append(Session.pageViews, page)]>>
                  /\ UNCHANGED <<interactions, errors>>
                  /\ log' = <<LogRec("info", "PAGE_VIEW")>>
             ELSE /\ UNCHANGED <<currentSession, interactions, errors>>
                  /\ log' = <<>>
                  /\ sent' = <<>>]_vars

\* C9 witness: a page view tracked after the session ended, with interactions
\* still buffered: nothing was logged
C9_Witness ==
    /\ lastCall = "trackPageView"
    /\ ~HasSession
    /\ nStarts > 0
    /\ interactions # <<>>
    /\ log = <<>>


(***************************************************************************)
(* Properties of performHealthCheck (checked under SpecHealth)             *)
(***************************************************************************)

\* the outcomes of the three probes in environment e: the required configuration
\* values are present, the remote persistence service is reachable, the local
\* store takes a write and a delete
EnvOutcome(e) == e.url /\ e.key
RemoteOutcome(e) == e.remote
StorageOutcome(e) == e.storage = "ok"

\* C10: for every combination of the three probe outcomes, the status is healthy
\* iff all three probes pass, unhealthy iff all three fail, degraded otherwise,
\* and each check boolean is the outcome of its own probe.
C10_StatusFromProbeOutcomes ==
    health # <<>> =>
        LET h == health[1]
            e == probedEnv[1]
            passed == {q \in {"environment", "remote", "storage"} :
                          \/ q = "environment" /\ EnvOutcome(e)
                          \/ q = "remote" /\ RemoteOutcome(e)
                          \/ q = "storage" /\ StorageOutcome(e)}
        IN /\ h.checks.environment = EnvOutcome(e)
           /\ h.checks.supabase = RemoteOutcome(e)
           /\ h.checks.storage = StorageOutcome(e)
           /\ h.status = "healthy" <=> Cardinality(passed) = 3
           /\ h.status = "unhealthy" <=> Cardinality(passed) = 0
           /\ h.status = "degraded" <=> Cardinality(passed) \in {1, 2}


\* C11: with all three probes passing the result is healthy and errors is undefined;
\* with exactly one probe failing it is degraded with a one-element errors list
\* naming that probe; with all three failing it is unhealthy with a three-element
\* errors list; the errors list has exactly one entry per failing probe.
C11_OneErrorPerFailingProbe ==
    health # <<>> =>
        LET h == health[1]
            e == probedEnv[1]
            failing == (IF EnvOutcome(e) THEN {} ELSE {"Environment"})
                       \cup (IF RemoteOutcome(e) THEN {} ELSE {"Supabase"})
                       \cup (IF StorageOutcome(e) THEN {} ELSE {"Storage"})
        IN /\ failing = {} => h.status = "healthy" /\ h.errors = <<>>
           /\ Cardinality(failing) = 1 =>
                 /\ h.status = "degraded"
                 /\ Len(h.errors) = 1
                 /\ h.errors[1] \in failing
           /\ Cardinality(failing) = 3 => h.status = "unhealthy" /\ Len(h.errors) = 3
           /\ Len(h.errors) = Cardinality(failing)
           /\ \A q \in failing : \E i \in 1..Len(h.errors) : h.errors[i] = q

\* C12: performHealthCheck always resolves with a HealthCheck, never rejects: a
\* missing configuration value and a failing local-storage write or delete each
\* show as a false check plus an errors entry of the resolved result.
C12_ProbeFailuresAreCaptured ==
    health # <<>> =>
        LET h == health[1]
            e == probedEnv[1]
        IN IF h.status \notin {"healthy", "degraded", "unhealthy"}
           THEN FALSE
           ELSE /\ ~(e.url /\ e.key) =>
                      /\ ~h.checks.environment
                      /\ \E i \in 1..Len(h.errors) : h.errors[i] = "Environment"
                /\ e.storage # "ok" =>
                      /\ ~h.checks.storage
                      /\ \E i \in 1..Len(h.errors) : h.errors[i] = "Storage"

\* a check ran with a configuration value missing and the local store refusing
\* the write, and resolved
C12_Witness ==
    /\ health # <<>>
    /\ ~probedEnv[1].key
    /\ probedEnv[1].storage \in {"setItemThrows", "unavailable"}
    /\ health[1].status = "degraded"
    /\ Len(health[1].errors) = 2

(***************************************************************************)
(* Properties of HealthMonitor (checked under SpecHistory and SpecAlerts)  *)
(***************************************************************************)

\* C13: after N checkHealth calls, made in whatever interleaving, of which D have
\* got past their await, the history holds exactly the results of the last
\* min(D, 100) of those D calls in the order the calls were made (D = N once no
\* call is suspended); it never holds more than 100 entries, and each call that
\* completes has appended exactly one.
C13_HistoryIsLastHundredCalls ==
    LET done == nChecks - Len(checkQueue)
        kept == IF done < 100 THEN done ELSE 100
    IN /\ Len(healthHistory) = kept
       /\ Len(healthHistory) <= 100
       /\ \A i \in 1..Len(healthHistory) :
             /\ healthHistory[i].call = done - kept + i
             /\ healthHistory[i].check.status = "healthy"

\* 101 calls have completed, the oldest entry has been evicted, and two more
\* calls are suspended at the same time
C13_Witness ==
    /\ Len(healthHistory) = 100
    /\ healthHistory[1].call = 2
    /\ healthHistory[100].call = 101
    /\ Len(checkQueue) = 2

C15_BufferHoldsLastHundred ==
    isDevelopment # <<>> =>
        LET kept == IF nLogs < 100 THEN nLogs ELSE 100
        IN /\ Len(getStoredLogs) = kept
           /\ \A i \in 1..Len(getStoredLogs) : getStoredLogs[i].seq = nLogs - kept + i

\* C16: no record written to the console and no record in the persisted log list
\* carries the value of a field named password, token or secret of the data
\* object given to the log call.
C16_SensitiveFieldsNeverEmitted ==
    LET Clean(r) == r.data # <<>> =>
                       /\ r.data[1].password = <<>>
                       /\ r.data[1].token = <<>>
                       /\ r.data[1].secret = <<>>
    IN /\ \A i \in 1..Len(consoleOut) : Clean(consoleOut[i])
       /\ \A i \in 1..Len(appLogs.logs) : Clean(appLogs.logs[i])

\* C17: no logger call raises to its caller, whatever the state of the local
\* store: the store unavailable, the write refused, the stored list not valid JSON.
C17_LogCallsNeverRaise == logOutcome \in {"", "returned"}

\* a development-mode log call returned although every access to the local
\* store throws
C17_Witness ==
    /\ isDevelopment = <<TRUE>>
    /\ envState.storage = "unavailable"
    /\ log # <<>>
    /\ logOutcome = "returned"
    /\ consoleOut # <<>>

(***************************************************************************)
(* Properties of the error taxonomy (checked under SpecTaxonomy)           *)
(***************************************************************************)

\* C18: every construction of an ApplicationError, whatever the variant and
\* whoever constructs it (a constructor call, or handleError wrapping a value
\* that is not an ApplicationError), reports exactly one error-level record to
\* the Logger in the step that constructs it; handleError passing an
\* ApplicationError through returns it and logs nothing.
C18_OneReportPerConstruction ==
    [][LET reports == {i \in 1..Len(log') :
                          log'[i] = [level |-> "error", context |-> "ERROR"]}
           errorLevel == {i \in 1..Len(log') : log'[i].level = "error"}
       IN /\ (nMade' # nMade /\ thrown'[1].cls = "ApplicationError") =>
                Cardinality(reports) = 1 /\ Cardinality(errorLevel) = 1
          /\ (nMade' = nMade /\ thrown # <<>> /\ thrown[1].cls # "ApplicationError") =>
                /\ thrown'[1].cls = "ApplicationError"
                /\ Cardinality(reports) = 1
                /\ Cardinality(errorLevel) = 1
          /\ (nMade' = nMade /\ thrown # <<>> /\ thrown[1].cls = "ApplicationError") =>
                thrown' = thrown /\ log' = <<>>]_vars

\* handleError wrapped a native Error, with one report, and nothing else was
\* logged by the step
C18_Witness ==
    /\ classified # <<>>
    /\ classified[1].cls = "Error"
    /\ classified[2].name = "ApplicationError"
    /\ thrown = <<classified[2]>>
    /\ log = <<[level |-> "error", context |-> "ERROR"]>>

\* C19: code and statusCode of an error of one of the six variants depend on the
\* variant alone, not on message, context or cause: Validation 400, Network 0,
\* Database 500, Authentication 401, Permission 403, NotFound 404, each with
\* one code string; isOperational is true for each of them.
C19_CodesByVariant ==
    \A e \in {thrown[i] : i \in 1..Len(thrown)}
             \cup {classified[i] : i \in 1..Len(classified)} :
        (e.cls = "ApplicationError" /\ e.name # "ApplicationError") =>
            /\ e.name = "ValidationError" =>
                  e.statusCode = <<400>> /\ e.code = <<"VALIDATION_ERROR">>
            /\ e.name = "NetworkError" =>
                  e.statusCode = <<0>> /\ e.code = <<"NETWORK_ERROR">>
            /\ e.name = "DatabaseError" =>
                  e.statusCode = <<500>> /\ e.code = <<"DATABASE_ERROR">>
            /\ e.name = "AuthenticationError" =>
                  e.statusCode = <<401>> /\ e.code = <<"AUTH_ERROR">>
            /\ e.name = "PermissionError" =>
                  e.statusCode = <<403>> /\ e.code = <<"PERMISSION_ERROR">>
            /\ e.name = "NotFoundError" =>
                  e.statusCode = <<404>> /\ e.code = <<"NOT_FOUND">>
            /\ e.isOperational = TRUE

\* two NotFound errors with different messages and contexts, same code and status
C19_Witness ==
    /\ thrown # <<>>
    /\ classified # <<>>
    /\ thrown[1].cls = "ApplicationError"
    /\ thrown[1].name = "NotFoundError"
    /\ classified[2].name = "NotFoundError"
    /\ classified[2].message # thrown[1].message
    /\ classified[2].context # thrown[1].context
    /\ classified[2].statusCode = <<404>>
    /\ thrown[1].statusCode = <<404>>

\* C20: handleError returns an ApplicationError: the very error it was given when
\* that is one; for a native Error a new one with the same message that carries
\* the native Error as its cause; for any other value a new one whose message is
\* the string form of the value.
C20_ClassifyKeepsMessageAndCause ==
    classified # <<>> =>
        LET given == classified[1]
            result == classified[2]
        IN /\ result.cls = "ApplicationError"
           /\ given.cls = "ApplicationError" => result = given
           /\ given.cls = "Error" =>
                 /\ result.message = given.message
                 /\ result.cause = TRUE
           /\ given.cls = "NonError" =>
                 result.message = (CASE given.value.type = "string" -> given.value.s
                                     [] given.value.type = "number" -> "42"
                                     [] OTHER -> "null")

(***************************************************************************)
(* More properties of retryWithBackoff (checked under SpecRetry)           *)
(***************************************************************************)

\* C28: the delay a call sleeps after failed attempt a, 1 <= a < maxAttempts, is
\* min(baseDelay * 2^(a-1) + jitter, maxDelay) for a jitter in 0..999 ms: at most
\* maxDelay (10000 ms by default) and at least min(baseDelay * 2^(a-1), maxDelay).
C28_DelayWithinBounds ==
    \A r \in RetryCalls :
        retry[r].pc = "sleeping" =>
            LET c == retry[r]
                a == c.attempt
                doubled == c.baseDelay * 2^(a - 1)
            IN /\ a >= 1
               /\ a < c.maxAttempts
               /\ c.delay <= 10000
               /\ c.delay >= (IF doubled < 10000 THEN doubled ELSE 10000)
               /\ \E jitter \in 0..999 :
                     c.delay = (IF doubled + jitter < 10000 THEN doubled + jitter
                                ELSE 10000)

\* a call sleeps the capped delay after its second failure (8000 * 2 > 10000)
\* while the other call sleeps an uncapped first delay with the largest jitter
C28_Witness ==
    /\ retry["r1"].pc = "sleeping"
    /\ retry["r1"].attempt = 2
    /\ retry["r1"].baseDelay = 8000
    /\ retry["r1"].delay = 10000
    /\ retry["r2"].pc = "sleeping"
    /\ retry["r2"].attempt = 1
    /\ retry["r2"].delay = 1999

(***************************************************************************)
(* The remote probe of performHealthCheck (checked under SpecHealth)       *)
(***************************************************************************)

\* C29: whenever the remote service is unreachable, performHealthCheck returns
\* checks.supabase = false with an errors entry for it, so the status is not healthy.
C29_UnreachableRemoteIsReported ==
    (health # <<>> /\ health[1].status # "rejected" /\ ~RemoteOutcome(probedEnv[1])) =>
        LET h == health[1]
        IN /\ h.checks.supabase = FALSE
           /\ \E i \in 1..Len(h.errors) : h.errors[i] = "Supabase"
           /\ h.status # "healthy"

(***************************************************************************)
(* The memory alert of HealthMonitor.checkAlerts (checked under SpecAlerts) *)
(***************************************************************************)

\* C30: when a checkHealth completes, a memory alert is raised iff the runtime
\* exposes memory telemetry and used/limit is strictly greater than the memoryUsage
\* threshold; without telemetry there is no memory alert and the check completes;
\* the health history plays no part in the decision.
C30_MemoryAlertIffOverThreshold ==
    [][(checkQueue # <<>> /\ checkQueue' = Tail(checkQueue)) =>
          LET memoryAlert == \E i \in 1..Len(alerts') : alerts'[i] = "memory"
              over == /\ memory # <<>>
                      /\ memory[1].usedJSHeapSize * 100
                            > alertThresholds.memoryUsage * memory[1].jsHeapSizeLimit
          IN /\ memoryAlert <=> over
             /\ Len(healthHistory') = Len(healthHistory) + 1
             /\ memoryAlert =>
                   \E i \in 1..Len(log') :
                       log'[i] = [level |-> "warn", context |-> "HEALTH_MONITOR"]]_vars

\* a check completed with the heap at 90% of its limit under the threshold of
\* 80%, and the memory alert alone was raised
C30_Witness ==
    /\ memory = <<[usedJSHeapSize |-> 90, jsHeapSizeLimit |-> 100]>>
    /\ alertThresholds.memoryUsage = 80
    /\ healthHistory # <<>>
    /\ checkQueue = <<>>
    /\ alerts = <<"memory">>
    /\ log = <<[level |-> "warn", context |-> "HEALTH_MONITOR"],
               [level |-> "error", context |-> "ALERTS"]>>

(***************************************************************************)
(* The errors retryWithBackoff and attemptRecovery raise                   *)
(* (checked under SpecRecovery; the retry conjunct under SpecRetry)        *)
(***************************************************************************)

\* C24: every error raised to the caller by retryWithBackoff, whatever maxAttempts
\* is, and by attemptRecovery, at the ceiling and when the last allowed attempt
\* fails, is an ApplicationError of the taxonomy.
C24_RaisedErrorsAreAppErrors ==
    /\ \A r \in RetryCalls :
          retry[r].pc = "thrown" => IsAppError(retry[r].result[1])
    /\ \A p \in RecCalls :
          rec[p].pc = "thrown" => rec[p].result[1].cls = "ApplicationError"

\* the part of C24 about retryWithBackoff alone
C24_RetryRaisesAppErrors ==
    \A r \in RetryCalls :
        retry[r].pc = "thrown" => IsAppError(retry[r].result[1])

\* the same for the calls that made at least one attempt
C24_RetryRaisesAppErrorsAfterAnAttempt ==
    \A r \in RetryCalls :
        (retry[r].pc = "thrown" /\ retry[r].opCalls > 0) => IsAppError(retry[r].result[1])

(***************************************************************************)
(* Properties of withTimeout (checked under SpecTimeout)                   *)
(***************************************************************************)

\* C21: withTimeout settles with whichever of the operation and the timer finishes
\* first: the operation's own value or error when the operation is first, a
\* Network-kind error naming the bound when the timer is first; a timeout leaves
\* the operation running, and nothing that happens later changes the result.
C21_FirstSettlerDecides ==
    [][\A t \in WtCalls :
          LET c == wt[t]
              d == wt'[t]
              opSettles == c.op # "settled" /\ d.op = "settled"
              timerFires == c.timer = "armed" /\ d.timer = "fired"
          IN /\ (c.pc # "settled" /\ opSettles) =>
                   /\ d.pc = "settled"
                   /\ d.result = d.opOutcome
                   /\ d.result[1] = (IF d.opOutcome[1].cls = "value"
                                     THEN [cls |-> "value", result |-> "v"]
                                     ELSE RawError(d.opOutcome[1].cls, 1))
             /\ (c.pc = "pending" /\ timerFires) =>
                   /\ d.pc = "settled"
                   /\ d.result[1].cls = "ApplicationError"
                   /\ d.result[1].name = "NetworkError"
                   /\ d.result[1].code = <<"NETWORK_ERROR">>
                   /\ d.result[1].message =
                         "Operation timed out after " \o ToString(c.timeoutMs) \o "ms"
                   /\ d.op = c.op
             /\ c.pc = "settled" => d.pc = "settled" /\ d.result = c.result]_vars

\* one call timed out after 5000 ms and its operation resolved afterwards, the
\* result still being the timeout error; the other call's operation failed with
\* its own error before the timer fired, and the timer fired afterwards
C21_Witness ==
    /\ wt["t1"].timer = "fired"
    /\ wt["t1"].op = "settled"
    /\ wt["t1"].opOutcome = <<[cls |-> "value", result |-> "v"]>>
    /\ wt["t1"].result # <<>>
    /\ wt["t1"].result[1].cls = "ApplicationError"
    /\ wt["t1"].result[1].message = "Operation timed out after 5000ms"
    /\ wt["t2"].timer = "fired"
    /\ wt["t2"].result = <<NativeError("failed", 1)>>

(***************************************************************************)
(* Properties of PerformanceMonitor (checked under SpecPerf)               *)
(***************************************************************************)

\* C22: whatever subset of paint, largest-contentful-paint, first-input and
\* layout-shift the browser does not support, every supported one of the four is
\* observed after initialize().
C22_SupportedSignalsObserved ==
    lastPerfCall = "initialize" =>
        \A i \in 1..Len(WebVitals) :
            WebVitals[i] \in perfSupport =>
                Observer(nInits, WebVitals[i]) \in subscribed

\* the same when all four entry types are supported
C22_ObservedWhenAllSupported ==
    (lastPerfCall = "initialize"
       /\ \A i \in 1..Len(WebVitals) : WebVitals[i] \in perfSupport) =>
        \A i \in 1..Len(WebVitals) : Observer(nInits, WebVitals[i]) \in subscribed

\* C23: after destroy() no observer that initialize() subscribed is still
\* subscribed, also when some subscriptions failed, and a further destroy()
\* changes nothing.
C23_DestroyUnsubscribesAll ==
    lastPerfCall = "destroy" => subscribed = {} /\ observers = <<>>

\* what destroy() does reach: the observers of the list
C23_ListedObserversUnsubscribed ==
    /\ lastPerfCall = "destroy" => observers = <<>>
    /\ [][lastPerfCall' = "destroy" =>
             /\ \A i \in 1..Len(observers) : observers[i] \notin subscribed'
             /\ lastPerfCall = "destroy" => UNCHANGED <<observers, subscribed>>]_vars

(***************************************************************************)
(* endSession with a failing analytics sink (checked under SpecSink)       *)
(***************************************************************************)

\* C25: when handing the sealed session to the analytics sink fails, endSession()
\* does not raise to its caller, the failure is logged, and the session and both
\* buffers are cleared all the same.
C25_SinkFailureIsContained ==
    [][(lastCall' = "endSession" /\ HasSession /\ analyticsEnv = "throws") =>
          /\ ~endRaised'
          /\ \E i \in 1..Len(log') : log'[i] = [level |-> "error", context |-> "ANALYTICS"]
          /\ currentSession' = <<>>
          /\ interactions' = <<>>
          /\ errors' = <<>>]_vars

\* a session holding an interaction and an error was ended while the sink was
\* failing: the failure was logged and everything is cleared
C25_Witness ==
    /\ lastCall = "endSession"
    /\ analyticsEnv = "throws"
    /\ sent # <<>>
    /\ sent[1].interactions # <<>>
    /\ sent[1].errors # <<>>
    /\ log = <<[level |-> "info", context |-> "SESSION"],
               [level |-> "error", context |-> "ANALYTICS"]>>
    /\ ~endRaised
    /\ currentSession = <<>>
    /\ interactions = <<>>
    /\ errors = <<>>

(***************************************************************************)
(* Properties of ErrorBoundary (checked under SpecBoundary)                *)
(***************************************************************************)

\* C26: the retry counter of a boundary stays within 0..3; a retry below the
\* ceiling adds one to it and clears the error state; a retry at the ceiling
\* leaves the error state and the counter as they are; nothing ever lowers the
\* counter, so an instance clears its error state by retry at most 3 times.
C26_BoundedRetry ==
    [][\A b \in Boundaries :
          LET c == boundary[b]
              d == boundary'[b]
              retried == d.nRetries # c.nRetries
          IN /\ c.retryCount \in 0..3 /\ d.retryCount \in 0..3
             /\ d.retryCount >= c.retryCount
             /\ (retried /\ c.retryCount < 3) =>
                   /\ d.retryCount = c.retryCount + 1
                   /\ d.state = [hasError |-> FALSE, error |-> <<>>, errorInfo |-> <<>>]
                   /\ d.nCleared = c.nCleared + 1
             /\ (retried /\ c.retryCount = 3) =>
                   /\ d.retryCount = 3
                   /\ d.state = c.state
                   /\ d.nCleared = c.nCleared
             /\ ~retried => d.retryCount = c.retryCount /\ d.nCleared = c.nCleared
             /\ d.nCleared <= 3]_vars

\* a boundary that caught four errors and was retried four times: three retries
\* cleared the error, the fourth left the fourth error showing
C26_Witness ==
    /\ boundary["b1"].nThrows = 4
    /\ boundary["b1"].nRetries = 4
    /\ boundary["b1"].retryCount = 3
    /\ boundary["b1"].nCleared = 3
    /\ boundary["b1"].state.hasError
    /\ boundary["b1"].state.error = <<4>>
    /\ log = <<[level |-> "error", context |-> "ErrorBoundary"]>>

(***************************************************************************)
(* Values handed to readers (checked under SpecCopies)                     *)
(***************************************************************************)

\* C27: a reader that changes the array it got from getHealthHistory(), the
\* object it got from getAlertThresholds(), or the interaction and error lists of
\* a sealed session it was handed, changes nothing of the owners' history,
\* thresholds, buffers and session; and whatever the owners do afterwards changes
\* nothing of what a reader holds.  What is handed out is the owner's value at
\* that moment.
C27_ReadersHoldCopies ==
    [][/\ nMutations' # nMutations =>
             UNCHANGED <<healthHistory, alertThresholds, interactions, errors,
                         currentSession>>
       /\ (nMutations' = nMutations /\ nGets' = nGets) =>
             /\ heldHistory # <<>> =>
                   /\ heldHistory' # <<>>
                   /\ HistoryView(heldHistory'[1], healthHistory')
                        = HistoryView(heldHistory[1], healthHistory)
             /\ heldThresholds # <<>> =>
                   /\ heldThresholds' # <<>>
                   /\ ThresholdsView(heldThresholds'[1], alertThresholds')
                        = ThresholdsView(heldThresholds[1], alertThresholds)
             /\ heldSession' = heldSession
       /\ (nGets' # nGets /\ heldHistory' # heldHistory) =>
             HistoryView(heldHistory'[1], healthHistory') = healthHistory
       /\ (nGets' # nGets /\ heldThresholds' # heldThresholds) =>
             ThresholdsView(heldThresholds'[1], alertThresholds') = alertThresholds]_vars

\* a reader emptied the history array it got while the monitor went on to its
\* second check, and the sink pushed an interaction of its own onto the sealed
\* session it kept: the monitor has both checks, the reader's array is empty
C27_Witness ==
    /\ nMutations = 2
    /\ heldHistory # <<>>
    /\ HistoryView(heldHistory[1], healthHistory) = <<>>
    /\ Len(healthHistory) = 2
    /\ heldSession # <<>>
    /\ Len(heldSession[1].interactions) = 2
    /\ nTrackedI = 1

(***************************************************************************)
(* The persisted log list (checked under SpecLogStore)                     *)
(***************************************************************************)

\* C31: in development mode, with the local store working, after N log calls the
\* persisted list holds exactly the last min(N, 100) records in call order; in
\* production mode no log call writes the persisted list or the console.
C31_PersistedListIsCappedFifo ==
    /\ isDevelopment = <<TRUE>> =>
          LET kept == IF nLogs < 100 THEN nLogs ELSE 100
          IN /\ Len(appLogs.logs) = kept
             /\ \A i \in 1..kept : appLogs.logs[i].seq = nLogs - kept + i
             /\ nLogs > 0 => appLogs.kind = "json" /\ Len(consoleOut) = 1
    /\ isDevelopment = <<FALSE>> => appLogs = AbsentItem /\ consoleOut = <<>>

\* 102 log calls were made in development mode: the list holds calls 3..102
C31_Witness ==
    /\ isDevelopment = <<TRUE>>
    /\ nLogs = 102
    /\ Len(appLogs.logs) = 100
    /\ appLogs.logs[1].seq = 3
    /\ appLogs.logs[100].seq = 102

(***************************************************************************)
(* Properties of the connection status (checked under SpecConnection)      *)
(***************************************************************************)

\* C32: once a health check has completed and no check is running, the
\* ConnectionStatus component shows offline when the latest status is not
\* healthy and shows online only when the latest status is healthy
C32_StatusFollowsLatestCheck ==
    (hookHealth # <<>> /\ ~hookLoading) =>
        /\ hookHealth[1].status # "healthy" => ConnectionStatus = "offline"
        /\ ConnectionStatus = "online" => hookHealth[1].status = "healthy"

\* the flags of useConnectionStatus follow the latest completed check and are
\* never both set
C32_HookFlagsFollowLatestCheck ==
    LET c == useConnectionStatus
    IN /\ ~(c.isOnline /\ c.isOffline)
       /\ c.isOnline <=> (hookHealth # <<>> /\ hookHealth[1].status = "healthy")
       /\ c.isOffline <=> (hookHealth # <<>> /\ hookHealth[1].status # "healthy")

C32_HookWitness ==
    /\ hookHealth # <<>>
    /\ hookHealth[1].status = "degraded"
    /\ useConnectionStatus.isOffline
    /\ ConnectionStatus = "online"

(***************************************************************************)
(* Further properties of AutoRecovery.attemptRecovery                      *)
(***************************************************************************)

\* C33: in every reachable state, also with call chains for one context
\* interleaved, the counter of every context is absent or an integer between 1
\* and maxAttempts
C33_CounterWithinCeiling ==
    \A x \in DOMAIN recoveryAttempts : recoveryAttempts[x] \in 1..maxAttempts

\* C33 witness: two interleaved call chains for X both read the counter at 2,
\* both failed, and the counter is at the ceiling
C33_Witness ==
    /\ \A p \in RecCalls :
          /\ rec[p].pc = "thrown"
          /\ rec[p].context = "X"
          /\ rec[p].attempts = 2
          /\ rec[p].result # <<MaxRecoveryError("X")>>
    /\ recoveryAttempts["X"] = maxAttempts

\* C34: a call that starts from counter c < 3 while no other call for its
\* context is in flight invokes the operation at most 3 - c times, once per
\* nesting level, nests at most 3 - c deep, waits the cooldown only when another
\* attempt follows (never after the attempt that reaches the ceiling), and ends
\* with the value the operation resolved with or with the error of its last
\* attempt.
C34_SoloCallIsBounded ==
    \A p \in RecCalls :
        LET c == rec[p]
        IN (c.pc # "idle" /\ c.first < maxAttempts) =>
              /\ c.invoked <= maxAttempts - c.first
              /\ c.depth <= maxAttempts - c.first
              /\ c.invoked = c.depth
              /\ c.pc = "cooldown" =>
                    /\ RecGet(c.context) < maxAttempts
                    /\ c.invoked < maxAttempts - c.first
              /\ c.pc = "returned" =>
                    /\ c.result # <<>>
                    /\ c.result[1].kind = "value"
              /\ c.pc = "thrown" =>
                    /\ c.invoked = maxAttempts - c.first
                    /\ \E e \in OpErrors : c.result = <<OperationError(e)>>

\* C34 witness: a call alone for X failed three times, waited twice and raised
\* the error of its third attempt
C34_Witness ==
    \E p \in RecCalls :
        /\ rec[p].pc = "thrown"
        /\ rec[p].context = "X"
        /\ rec[p].first = 0
        /\ rec[p].invoked = 3
        /\ rec[p].depth = 3
        /\ rec[p].result = <<OperationError("e2")>>

\* C37: between two resets of the counter of a context the operation is invoked
\* for that context at most maxAttempts times in total, also with several calls
\* for the context in flight
C37_InvocationsWithinCeiling ==
    \A x \in Contexts : recOps[x] <= maxAttempts

(***************************************************************************)
(* Further properties of UserTracker                                       *)
(***************************************************************************)

\* C35: every interaction of the session that endSession() emits was tracked
\* between that session's startSession() and its endSession(), and every error
\* of it was tracked while that session was the active one; nothing tracked
\* without a session or during an overwritten session is in it
C35_SessionIsolation ==
    sent # <<>> =>
        /\ \A i \in 1..Len(sent[1].interactions) :
              \E j \in 1..Len(sinceStart) : sinceStart[j] = sent[1].interactions[i]
        /\ \A i \in 1..Len(sent[1].errors) :
              sent[1].errors[i].sessionId = sent[1].sessionId

\* C38: each started session is emitted at most once: endSession() called with
\* an active session emits that session and leaves no session active, and
\* endSession() called again before the next startSession() (page teardown after
\* the session was ended) emits nothing, logs nothing and leaves the session
\* slot and both buffers as they were
C38_SessionEmittedAtMostOnce ==
    [][lastCall' = "endSession" =>
          IF HasSession
          THEN /\ sent' # <<>>
               /\ sent'[1].sessionId = Session.sessionId
               /\ ~HasSession'
          ELSE /\ sent' = <<>>
               /\ log' = <<>>
               /\ UNCHANGED <<currentSession, interactions, errors>>]_vars

\* C38 witness: the one session that was started has been ended, an interaction
\* was tracked afterwards, and endSession() was called a second time
C38_Witness ==
    /\ lastCall = "endSession"
    /\ nStarts = 1
    /\ sent = <<>>
    /\ currentSession = NoSession
    /\ interactions # <<>>

(***************************************************************************)
(* Further properties of withTimeout                                       *)
(***************************************************************************)

\* C36: when the operation decided a withTimeout call (the call delivered what
\* the operation settled with), the timer callback of that call never runs, so
\* no NetworkError is constructed and no error record is logged for it
C36_NoTimeoutEffectsWhenOperationWins ==
    \A t \in WtCalls :
        (wt[t].pc = "settled" /\ wt[t].result = wt[t].opOutcome) =>
            wt[t].timer # "fired"

(***************************************************************************)
(* Further properties of PerformanceMonitor                                *)
(***************************************************************************)

\* C39: however often initialize() is called at most one memory sampler is
\* running, and once destroy() has been called the memory sampler no longer
\* fires and logs
C39_NothingRunsAfterDestroy ==
    [][/\ samplers' <= 1
       /\ lastPerfCall = "destroy" =>
             ~(lastPerfCall' = "sampler" /\ log' # <<>>)]_vars

\* after destroy() the memory sampler still fires and logs, without any second
\* initialize()
C39_SamplerOutlivesDestroy ==
    [][(lastPerfCall = "destroy" /\ nInits = 1) =>
          ~(lastPerfCall' = "sampler" /\ log' # <<>>)]_vars

====
